---- MODULE Spec2Model ----
(***************************************************************************)
(* Patch extraction, normalization, augmentation and the paired patch      *)
(* dataset of the CARE notebook (src/exercise3.ipynb).                     *)
(*                                                                         *)
(* Arrays are records [shape, dtype, data]: data is the row-major          *)
(* flattening of the array, shape its extents.  Numbers are exact          *)
(* rationals <<n, d>> in lowest terms with d > 0; d = 0 stands for the     *)
(* non-finite floats (<<1,0>> inf, <<-1,0>> -inf, <<0,0>> nan).  Rounding  *)
(* of float32/float64 is not modelled, only the dtype tag is.              *)
(***************************************************************************)
EXTENDS Integers, Sequences, FiniteSets, TLC

\* ------------------------------------------------------------------ bounds
MaxImages == 2

MaxTestImages == 1

MaxValImages == 1

MaxWorkers == 2

\* ------------------------------------------------------- rational numbers
Abs(x) == IF x < 0 THEN -x ELSE x

Sign(x) == IF x < 0 THEN -1 ELSE IF x > 0 THEN 1 ELSE 0

Min(a, b) == IF a < b THEN a ELSE b

Max(a, b) == IF a > b THEN a ELSE b

RECURSIVE GCD(_, _)
GCD(a, b) == IF b = 0 THEN a ELSE GCD(b, a % b)

Rat(n, d) ==
    IF d = 0 THEN <<Sign(n), 0>>
    ELSE LET g == GCD(Abs(n), Abs(d))
         IN  <<(Sign(d) * n) \div g, Abs(d) \div g>>

Int2Rat(v) == <<v, 1>>

IsFinite(a) == a[2] # 0

RNeg(a) == <<-a[1], a[2]>>

RAdd(a, b) ==
    IF a[2] = 0 /\ b[2] = 0
    THEN (IF a = b THEN a ELSE <<0, 0>>)
    ELSE Rat(a[1] * b[2] + b[1] * a[2], a[2] * b[2])

RSub(a, b) == RAdd(a, RNeg(b))

RMul(a, b) == Rat(a[1] * b[1], a[2] * b[2])

RInv(a) == IF a[1] < 0 THEN <<-a[2], -a[1]>> ELSE <<a[2], a[1]>>

RDiv(a, b) == RMul(a, RInv(b))

\* ------------------------------------------------------------------ arrays
RECURSIVE SeqProd(_)
SeqProd(s) == IF s = <<>> THEN 1 ELSE Head(s) * SeqProd(Tail(s))

RECURSIVE SeqSum(_)
SeqSum(s) == IF s = <<>> THEN <<0, 1>> ELSE RAdd(Head(s), SeqSum(Tail(s)))

\* multi-index (0-based) of the n-th (0-based) element of an array of this shape
Unravel(n, shape) ==
    [i \in 1..Len(shape) |->
        (n \div SeqProd(SubSeq(shape, i + 1, Len(shape)))) % shape[i]]

RECURSIVE Ravel(_, _)
Ravel(idx, shape) ==
    IF idx = <<>> THEN 0
    ELSE idx[Len(idx)]
         + shape[Len(shape)]
           * Ravel(SubSeq(idx, 1, Len(idx) - 1), SubSeq(shape, 1, Len(shape) - 1))

At(arr, idx) == arr.data[Ravel(idx, arr.shape) + 1]

\* the multi-indices of an array of this shape, in row-major order
Indices(shape) == {Unravel(n - 1, shape) : n \in 1..SeqProd(shape)}

\* the array of the given shape whose element at idx is arr[src[idx]]
Gather(arr, shape, src) ==
    [shape |-> shape, dtype |-> arr.dtype,
     data  |-> [n \in 1..SeqProd(shape) |-> At(arr, src[Unravel(n - 1, shape)])]]

\* arr[i] for a 0-based i along the first axis
IndexFirst(arr, i) ==
    LET sub == Tail(arr.shape)
        sz  == SeqProd(sub)
    IN  [shape |-> sub, dtype |-> arr.dtype,
         data  |-> SubSeq(arr.data, i * sz + 1, (i + 1) * sz)]

RECURSIVE ConcatData(_)
ConcatData(arrs) ==
    IF arrs = <<>> THEN <<>> ELSE Head(arrs).data \o ConcatData(Tail(arrs))

\* np.stack of a non-empty list of equally shaped arrays
Stack(arrs) ==
    [shape |-> <<Len(arrs)>> \o arrs[1].shape, dtype |-> arrs[1].dtype,
     data  |-> ConcatData(arrs)]

CanStack(arrs) ==
    /\ arrs # <<>>
    /\ \A i \in 1..Len(arrs) : arrs[i].shape = arrs[1].shape

AsType(arr, dtype) == [arr EXCEPT !.dtype = dtype]

NewAxis(arr) == [arr EXCEPT !.shape = <<1>> \o arr.shape]

\* ------------------------------------------------------------- state
VARIABLES
    pc,                     \* the notebook step that runs next
    image_array,            \* train_images_array: stack of source images
    target_array,           \* train_targets_array: stack of target images
    patch_size,             \* the patch shape handed to create_patches
    s, k,                   \* create_patches: sample index, patches drawn of it
    crop_coords,            \* create_patches: the latest drawn coordinates
    image_patches,          \* create_patches: list of input patches
    target_patches,         \* create_patches: list of target patches
    train_images_patches,   \* returned stack of input patches
    train_targets_patches,  \* returned stack of target patches
    train_mean, train_std,  \* statistics of the source stack
    target_mean, target_std,\* statistics of the target stack
    dataset,                \* a CAREDataset: image_data, target_data, patch_augment
    stream,                 \* seed -> the two draws of a generator seeded with it
    index,                  \* the index of the latest __getitem__ call
    rotate_state,           \* augment_batch: the latest rotation count
    flip_state,             \* augment_batch: the latest flip flag
    image_batch,            \* the latest source array a dataset returned
    target_batch,           \* the latest target array a dataset returned
    model,                  \* what the trained network computes
    test_images_array,      \* stack of test source images
    test_targets_array,     \* stack of test target images
    test_dataset,           \* the CAREDataset of the prediction loop
    i_test,                 \* prediction loop: position in test_dataloader
    output,                 \* prediction loop: the latest network output
    predictions,            \* prediction loop: list of denormalized outputs
    args,                   \* the arguments of a function called on its own
    augmented,              \* what augment_batch returned for args
    normalized,             \* what normalize returned for args
    denormalized,           \* what denormalize returned for normalized
    val_images_array,       \* stack of validation source images
    val_targets_array,      \* stack of validation target images
    val_images_patches,     \* stack of validation input patches
    val_targets_patches,    \* stack of validation target patches
    val_dataset,            \* the CAREDataset of the validation loop
    shares_memory,          \* whether the returned stacks share memory with the inputs
    frames,                 \* the local variables of the __getitem__ calls in progress
    image_files,            \* split cell: the source files, shuffled once permuted
    target_files,           \* split cell: the target files, shuffled once permuted
    shuffled_indices,       \* split cell: np.random.permutation(len(image_files))
    train_image_files,      \* split cell: the source files of the train split
    train_target_files,     \* split cell: the target files of the train split
    val_image_files,        \* split cell: the source files of the validation split
    val_target_files,       \* split cell: the target files of the validation split
    epoch,                  \* training loop: the epoch that runs
    i_batch,                \* training loop: batches done in the loop that runs
    train_loss,             \* training loop: loss of the latest train batch
    val_loss,               \* training loop: loss of the latest validation batch
    train_losses,           \* training loop: list of saved train losses
    val_losses,             \* training loop: list of saved validation losses
    batch_losses            \* what loss(output, target) returned in this epoch, per loop

patchVars == <<image_array, target_array, patch_size, s, k, crop_coords,
               image_patches, target_patches,
               train_images_patches, train_targets_patches>>

statVars == <<train_mean, train_std, target_mean, target_std>>

testVars == <<test_images_array, test_targets_array>>

fileVars == <<image_files, target_files, shuffled_indices, train_image_files,
              train_target_files, val_image_files, val_target_files>>

loopVars == <<epoch, i_batch, train_loss, val_loss, train_losses, val_losses,
              batch_losses>>

valVars == <<val_images_array, val_targets_array, val_images_patches,
             val_targets_patches, val_dataset>>

getVars == <<stream, index, rotate_state, flip_state, image_batch, target_batch>>

predVars == <<test_dataset, i_test, output, predictions>>

callVars == <<args, augmented, normalized, denormalized>>

vars == <<pc, patchVars, statVars, testVars, fileVars, loopVars, valVars, shares_memory,
          frames, dataset, getVars, model, predVars,
          callVars>>

None == [shape |-> <<0>>, dtype |-> "none", data |-> <<>>]

\* --------------------------------------------------------- create_patches
\* a stack of n images of the given shape with pairwise distinct pixel values
Ramp(n, shape, first) ==
    [shape |-> <<n>> \o shape, dtype |-> "uint16",
     data  |-> [j \in 1..(n * SeqProd(shape)) |-> Int2Rat(first + j - 1)]]

Scale(arr, f) ==
    [arr EXCEPT !.data = [j \in DOMAIN arr.data |-> RMul(arr.data[j], Int2Rat(f))]]

\* <<image shape, patch_size>> of the runs explored
Cases ==
    { <<<<2, 3>>, <<2, 2>>>>, <<<<2, 2>>, <<2, 2>>>>, <<<<2, 2>>, <<1, 2>>>> }

\* the brightness of the target relative to the source
TargetFactors == {1, 2}

NPatchesFloor(shape, psize) == SeqProd(shape) \div SeqProd(psize)

\* np.ceil(np.prod(sample.shape) / np.prod(patch_size)).astype(int)
NPatches(shape, psize) ==
    (SeqProd(shape) + SeqProd(psize) - 1) \div SeqProd(psize)

HighPastEnd(shape, psize, i) == shape[i] - psize[i] + 1

\* the inclusive upper end of rng.integers(0, sample.shape[i] - patch_size[i], endpoint=True)
High(shape, psize, i) == shape[i] - psize[i]

RECURSIVE Tuples(_, _, _)
Tuples(shape, psize, i) ==
    IF i = 0 THEN {<<>>}
    ELSE {Append(t, c) : t \in Tuples(shape, psize, i - 1),
                         c \in 0..High(shape, psize, i)}

\* the values the list comprehension of crop_coords can take
CoordChoices(shape, psize) == Tuples(shape, psize, Len(psize))

\* the extent of slice(c, c + p) on an axis of size n (numpy clips both ends)
SliceStart(c, n) == Min(c, n)

SliceLen(c, p, n) == Min(c + p, n) - Min(c, n)

\* sample[(..., *[slice(c, c + patch_size[i]) for i, c in enumerate(coords)])]
Slice(sample, coords, psize) ==
    LET r    == Len(sample.shape)
        lead == r - Len(coords)
        out  == [j \in 1..r |->
                    IF j <= lead THEN sample.shape[j]
                    ELSE SliceLen(coords[j - lead], psize[j - lead], sample.shape[j])]
    IN  Gather(sample, out,
               [idx \in Indices(out) |-> [j \in 1..r |->
                    IF j <= lead THEN idx[j]
                    ELSE idx[j] + SliceStart(coords[j - lead], sample.shape[j])]])

Shifted(coords) == [i \in DOMAIN coords |-> IF i = 1 THEN 0 ELSE coords[i]]

TargetCropShifted(target_sample, coords, psize) ==
    AsType(Slice(target_sample, Shifted(coords), psize), "float32")

\* patch = sample[...].copy().astype(np.float32)
Crop(sample, coords, psize) == AsType(Slice(sample, coords, psize), "float32")

\* target_patch = target_sample[...].copy().astype(np.float32)
TargetCrop(target_sample, coords, psize) ==
    AsType(Slice(target_sample, coords, psize), "float32")

sample_from_end == IndexFirst(image_array, image_array.shape[1] - 1 - s)

\* sample = image_array[s]
sample == IndexFirst(image_array, s)

target_sample == IndexFirst(target_array, s)

n_patches == NPatches(sample.shape, patch_size)

InitPatches ==
    /\ \E c \in Cases, n \in 1..MaxImages, f \in TargetFactors :
          /\ image_array = Ramp(n, c[1], 0)
          /\ target_array = Scale(Ramp(n, c[1], 0), f)
          /\ patch_size = c[2]
          /\ test_images_array = Ramp(MaxTestImages, c[1], 1)
          /\ test_targets_array = Scale(Ramp(MaxTestImages, c[1], 1), f)
          /\ val_images_array = Ramp(MaxValImages, c[1], 2)
          /\ val_targets_array = Scale(Ramp(MaxValImages, c[1], 2), f)
    /\ s = 0 /\ k = 0
    /\ crop_coords = <<>>
    /\ image_patches = <<>> /\ target_patches = <<>>
    /\ train_images_patches = None /\ train_targets_patches = None

DrawCoordsTiling ==
    /\ pc = "create_patches"
    /\ s < image_array.shape[1]
    /\ crop_coords' \in CoordChoices(sample.shape, patch_size)
    /\ \A n \in 1..Len(image_patches) :
          image_patches[n] # Crop(sample, crop_coords', patch_size)

\* crop_coords = [rng.integers(...) for i in range(len(patch_size))]
DrawCoords ==
    /\ pc = "create_patches"
    /\ s < image_array.shape[1]
    /\ crop_coords' \in CoordChoices(sample.shape, patch_size)

\* one iteration of the inner loop of create_patches, with the loop control
DrawPatch ==
    /\ DrawCoords
    /\ s < target_array.shape[1]
    /\ image_patches' = Append(image_patches, Crop(sample, crop_coords', patch_size))
    /\ target_patches' =
          Append(target_patches, TargetCrop(target_sample, crop_coords', patch_size))
    /\ IF k + 1 < n_patches
       THEN k' = k + 1 /\ s' = s
       ELSE k' = 0 /\ s' = s + 1
    /\ pc' = pc
    /\ UNCHANGED <<image_array, target_array, patch_size,
                   train_images_patches, train_targets_patches>>
    /\ UNCHANGED <<statVars, testVars, fileVars, loopVars, valVars, shares_memory,
                   frames, dataset, getVars, model, predVars, callVars>>

StackPatchesAsViews ==
    /\ pc = "create_patches"
    /\ s = image_array.shape[1]
    /\ CanStack(image_patches) /\ CanStack(target_patches)
    /\ train_images_patches' = Stack(image_patches)
    /\ train_targets_patches' = Stack(target_patches)
    /\ shares_memory' = TRUE
    /\ pc' = "statistics"
    /\ UNCHANGED <<image_array, target_array, patch_size, s, k, crop_coords,
                   image_patches, target_patches>>
    /\ UNCHANGED <<statVars, testVars, fileVars, loopVars, valVars,
                   frames, dataset, getVars, model, predVars, callVars>>

\* return np.stack(image_patches), np.stack(target_patches): the patches are
\* copies (.copy().astype(np.float32)) and np.stack allocates its result
StackPatches ==
    /\ pc = "create_patches"
    /\ s = image_array.shape[1]
    /\ CanStack(image_patches) /\ CanStack(target_patches)
    /\ train_images_patches' = Stack(image_patches)
    /\ train_targets_patches' = Stack(target_patches)
    /\ shares_memory' = FALSE
    /\ pc' = "statistics"
    /\ UNCHANGED <<image_array, target_array, patch_size, s, k, crop_coords,
                   image_patches, target_patches>>
    /\ UNCHANGED <<statVars, testVars, fileVars, loopVars, valVars,
                   frames, dataset, getVars, model, predVars, callVars>>

\* ------------------------------------------------------------- statistics
\* the largest r with r * r <= m
ISqrt(m) == CHOOSE r \in 0..m : r * r <= m /\ m < (r + 1) * (r + 1)

\* the square root, rounded down to a multiple of 1/64 (exact for the
\* squares of such multiples)
RSqrt(a) ==
    IF ~IsFinite(a) \/ a[1] < 0 THEN <<0, 0>>
    ELSE Rat(ISqrt((a[1] * 4096) \div a[2]), 64)

\* ndarray.mean()
Mean(arr) == RDiv(SeqSum(arr.data), Int2Rat(Len(arr.data)))

\* ndarray.std(): sqrt(mean(abs(x - x.mean()) ** 2))
Std(arr) ==
    LET m  == Mean(arr)
        sq == [n \in DOMAIN arr.data |->
                  RMul(RSub(arr.data[n], m), RSub(arr.data[n], m))]
    IN  RSqrt(RDiv(SeqSum(sq), Int2Rat(Len(sq))))

ComputeStatisticsOfPatches ==
    /\ pc = "statistics"
    /\ train_mean' = Mean(train_images_patches)
    /\ train_std' = Std(train_images_patches)
    /\ target_mean' = Mean(train_targets_patches)
    /\ target_std' = Std(train_targets_patches)
    /\ pc' = "dataset"
    /\ UNCHANGED <<patchVars, testVars, fileVars, loopVars, valVars, shares_memory,
                   frames, dataset, getVars, model, predVars, callVars>>

\* the cell that computes train_mean, train_std, target_mean, target_std
ComputeStatistics ==
    /\ pc = "statistics"
    /\ train_mean' = Mean(image_array)
    /\ train_std' = Std(image_array)
    /\ target_mean' = Mean(target_array)
    /\ target_std' = Std(target_array)
    /\ pc' = "dataset"
    /\ UNCHANGED <<patchVars, testVars, fileVars, loopVars, valVars, shares_memory,
                   frames, dataset, getVars, model, predVars, callVars>>

\* ------------------------------------------------- normalize, denormalize
Values(arr) == {arr.data[n] : n \in DOMAIN arr.data}

\* the elementwise result f[x] of a broadcast arithmetic expression
Map(arr, f) ==
    [arr EXCEPT !.dtype = "float64", !.data = [n \in DOMAIN arr.data |-> f[arr.data[n]]]]

normalize_guarded(image, mean, std) ==
    Map(image, [x \in Values(image) |->
                   IF std = <<0, 1>> THEN RSub(x, mean) ELSE RDiv(RSub(x, mean), std)])

\* return (image - mean) / std
normalize(image, mean, std) ==
    Map(image, [x \in Values(image) |-> RDiv(RSub(x, mean), std)])

denormalize_mixed(image, mean, std) ==
    Map(image, [x \in Values(image) |-> RAdd(RMul(x, mean), std)])

\* return image * std + mean
denormalize(image, mean, std) ==
    Map(image, [x \in Values(image) |-> RAdd(RMul(x, std), mean)])

\* ------------------------------------------------------------ augmentation
FlipHalf(arr, e) ==
    LET r == Len(arr.shape)
    IN  Gather(arr, arr.shape,
               [idx \in Indices(arr.shape) |-> [j \in 1..r |->
                    IF j = r - e + 1 /\ 2 * idx[j] < arr.shape[j] - 1
                    THEN arr.shape[j] - 1 - idx[j] ELSE idx[j]]])

\* np.flip along the e-th axis counted from the last one (e = 1: axis -1)
Flip(arr, e) ==
    LET r == Len(arr.shape)
    IN  Gather(arr, arr.shape,
               [idx \in Indices(arr.shape) |-> [j \in 1..r |->
                    IF j = r - e + 1 THEN arr.shape[j] - 1 - idx[j] ELSE idx[j]]])

SwapLast2(q) ==
    [j \in 1..Len(q) |->
        IF j = Len(q) - 1 THEN q[Len(q)] ELSE IF j = Len(q) THEN q[Len(q) - 1] ELSE q[j]]

\* np.transpose exchanging the last two axes
Transpose(arr) ==
    Gather(arr, SwapLast2(arr.shape),
           [idx \in Indices(SwapLast2(arr.shape)) |-> SwapLast2(idx)])

\* np.rot90(image, k=rotate_state, axes=(-2, -1))
Rot90(arr, rot) ==
    CASE rot % 4 = 0 -> arr
      [] rot % 4 = 1 -> Transpose(Flip(arr, 1))
      [] rot % 4 = 2 -> Flip(Flip(arr, 2), 1)
      [] rot % 4 = 3 -> Flip(Transpose(arr), 1)

_rotate_only(image, rot, flip) == Rot90(image, rot)

_flip_then_rotate(image, rot, flip) ==
    Rot90(IF flip = 1 THEN Flip(image, 1) ELSE image, rot)

_flip_and_rotate(image, rot, flip) ==
    LET rotated == Rot90(image, rot)
    IN  IF flip = 1 THEN Flip(rotated, 1) ELSE rotated

RotateStates == 0..3

FlipStates == 0..1

DefaultSeed == 42

\* rng = np.random.default_rng(seed=seed); rng.integers(0, 4); rng.integers(0, 2):
\* a generator seeded with the same seed repeats its draws
Draws(seed) ==
    IF seed \in DOMAIN stream THEN {stream[seed]} ELSE RotateStates \X FlipStates

augment_batch_independent(patch, target, rot, flip) ==
    <<_flip_and_rotate(patch, rot, flip),
      _flip_and_rotate(target, (rot + 1) % 4, flip)>>

DrawStatesUnseeded(seed) ==
    \E st \in RotateStates \X FlipStates :
       /\ stream' = (seed :> st) @@ stream
       /\ rotate_state' = st[1]
       /\ flip_state' = st[2]

\* rotate_state = rng.integers(0, 4); flip_state = rng.integers(0, 2)
DrawStates(seed) ==
    \E st \in Draws(seed) :
       /\ stream' = (seed :> st) @@ stream
       /\ rotate_state' = st[1]
       /\ flip_state' = st[2]

\* the pair augment_batch returns once its two states are drawn
augment_batch(patch, target, rot, flip) ==
    <<_flip_and_rotate(patch, rot, flip), _flip_and_rotate(target, rot, flip)>>

\* ------------------------------------------------------------- CAREDataset
NoDataset == [image_data |-> None, target_data |-> None, patch_augment |-> FALSE]

CAREDataset(image_data, target_data, apply_augmentations) ==
    [image_data |-> image_data, target_data |-> target_data,
     patch_augment |-> apply_augmentations]

DatasetLenAxis(ds) == ds.image_data.shape[2]

\* __len__
DatasetLen(ds) == ds.image_data.shape[1]

GetItemPairSwapped(ds, idx, rot, flip) ==
    LET patch  == IndexFirst(ds.image_data, idx)
        target == IndexFirst(ds.target_data, idx)
        aug    == IF ds.patch_augment
                  THEN augment_batch(patch, target, rot, flip)
                  ELSE <<patch, target>>
    IN  <<AsType(NewAxis(normalize(aug[1], target_mean, target_std)), "float32"),
          AsType(NewAxis(normalize(aug[2], train_mean, train_std)), "float32")>>

GetItemPairFloat64(ds, idx, rot, flip) ==
    LET patch  == IndexFirst(ds.image_data, idx)
        target == IndexFirst(ds.target_data, idx)
        aug    == IF ds.patch_augment
                  THEN augment_batch(patch, target, rot, flip)
                  ELSE <<patch, target>>
    IN  <<NewAxis(normalize(aug[1], train_mean, train_std)),
          NewAxis(normalize(aug[2], target_mean, target_std))>>

\* __getitem__ from the augmentation step on
GetItemPair(ds, idx, rot, flip) ==
    LET patch  == IndexFirst(ds.image_data, idx)
        target == IndexFirst(ds.target_data, idx)
        aug    == IF ds.patch_augment
                  THEN augment_batch(patch, target, rot, flip)
                  ELSE <<patch, target>>
    IN  <<AsType(NewAxis(normalize(aug[1], train_mean, train_std)), "float32"),
          AsType(NewAxis(normalize(aug[2], target_mean, target_std)), "float32")>>

\* dataset = CAREDataset(train_images_patches, train_targets_patches, flag)
DatasetInit ==
    /\ pc = "dataset"
    /\ \E flag \in BOOLEAN :
          dataset' = CAREDataset(train_images_patches, train_targets_patches, flag)
    /\ pc' = "loading"
    /\ UNCHANGED <<patchVars, statVars, testVars, fileVars, loopVars, valVars, shares_memory,
                   frames, getVars, model, predVars, callVars>>

\* arr with arr[i] overwritten by the values of sub
SetFirst(arr, i, sub) ==
    LET sz == SeqProd(Tail(arr.shape))
    IN  [arr EXCEPT !.data = [n \in DOMAIN arr.data |->
            IF i * sz < n /\ n <= (i + 1) * sz THEN sub.data[n - i * sz] ELSE arr.data[n]]]

GetItemInPlace ==
    /\ pc = "loading"
    /\ \E idx \in 0..(DatasetLen(dataset) - 1) :
          /\ index' = idx
          /\ IF dataset.patch_augment
             THEN DrawStates(DefaultSeed)
             ELSE UNCHANGED <<stream, rotate_state, flip_state>>
          /\ image_batch' = GetItemPair(dataset, idx, rotate_state', flip_state')[1]
          /\ target_batch' = GetItemPair(dataset, idx, rotate_state', flip_state')[2]
          /\ dataset' = [dataset EXCEPT
                !.image_data = SetFirst(@, idx,
                    normalize(IndexFirst(@, idx), train_mean, train_std)),
                !.target_data = SetFirst(@, idx,
                    normalize(IndexFirst(@, idx), target_mean, target_std))]
    /\ pc' = pc
    /\ UNCHANGED <<patchVars, statVars, testVars, fileVars, loopVars, valVars, shares_memory,
                   frames, model, predVars, callVars>>

GetItemIgnoresFlag ==
    /\ pc = "loading"
    /\ \E idx \in 0..(DatasetLen(dataset) - 1) :
          LET on == [dataset EXCEPT !.patch_augment = TRUE]
          IN  /\ index' = idx
              /\ DrawStates(DefaultSeed)
              /\ image_batch' = GetItemPair(on, idx, rotate_state', flip_state')[1]
              /\ target_batch' = GetItemPair(on, idx, rotate_state', flip_state')[2]
    /\ pc' = pc
    /\ UNCHANGED <<patchVars, statVars, testVars, fileVars, loopVars, valVars, shares_memory,
                   frames, dataset, model, predVars, callVars>>

\* image_batch, target_batch = dataset[idx], as the training loop's loader asks
GetItem ==
    /\ pc = "loading"
    /\ \E idx \in 0..(DatasetLen(dataset) - 1) :
          /\ index' = idx
          /\ IF dataset.patch_augment
             THEN DrawStates(DefaultSeed)
             ELSE UNCHANGED <<stream, rotate_state, flip_state>>
          /\ image_batch' = GetItemPair(dataset, idx, rotate_state', flip_state')[1]
          /\ target_batch' = GetItemPair(dataset, idx, rotate_state', flip_state')[2]
    /\ pc' = pc
    /\ UNCHANGED <<patchVars, statVars, testVars, fileVars, loopVars, valVars, shares_memory,
                   frames, dataset, model, predVars, callVars>>

\* ------------------------------------------------- training and prediction
\* what a trained network returns for a batch: the normalized target it was
\* trained against, or its input unchanged
Models == {"target", "identity"}

Forward(m, batch, target) == IF m = "target" THEN target ELSE batch

\* the training loop ends with some trained network
Train ==
    /\ pc = "loading"
    /\ \E m \in Models : model' = m
    /\ pc' = "test_dataset"
    /\ UNCHANGED <<patchVars, statVars, testVars, fileVars, loopVars, valVars, shares_memory,
                   frames, dataset, getVars, predVars, callVars>>

\* test_dataset = CAREDataset(image_data=test_images_array, target_data=test_targets_array)
TestDatasetInit ==
    /\ pc = "test_dataset"
    /\ test_dataset' = CAREDataset(test_images_array, test_targets_array, FALSE)
    /\ i_test' = 0
    /\ predictions' = <<>>
    /\ pc' = "predict"
    /\ UNCHANGED <<patchVars, statVars, testVars, fileVars, loopVars, valVars, shares_memory,
                   frames, dataset, getVars, model, output,
                   callVars>>

\* denormalize(output.cpu().numpy(), train_mean, train_std)
DenormalizeOutput(out) == denormalize(out, train_mean, train_std)

\* one iteration of the prediction loop (batch_size=1, shuffle=False)
PredictStep ==
    /\ pc = "predict"
    /\ i_test < DatasetLen(test_dataset)
    /\ index' = i_test
    /\ image_batch' = GetItemPair(test_dataset, i_test, 0, 0)[1]
    /\ target_batch' = GetItemPair(test_dataset, i_test, 0, 0)[2]
    /\ output' = Forward(model, image_batch', target_batch')
    /\ predictions' = Append(predictions, DenormalizeOutput(output'))
    /\ i_test' = i_test + 1
    /\ pc' = IF i_test + 1 < DatasetLen(test_dataset) THEN "predict" ELSE "done"
    /\ UNCHANGED <<patchVars, statVars, testVars, fileVars, loopVars, valVars, shares_memory,
                   frames, dataset, model, test_dataset,
                   stream, rotate_state, flip_state, callVars>>

\* ---------------------------------------------------------- specification
NoValue == <<0, 0>>

NoArgs == [fn |-> "none"]

\* the split cell has not run
NoFiles ==
    /\ image_files = <<>> /\ target_files = <<>>
    /\ shuffled_indices = <<>>
    /\ train_image_files = <<>> /\ train_target_files = <<>>
    /\ val_image_files = <<>> /\ val_target_files = <<>>

NoBatchLosses == [train |-> <<>>, val |-> <<>>]

\* a name that is not bound yet
Unbound == [kind |-> "unbound", item |-> 0]

\* the training loop cell has not run
NoLoop ==
    /\ epoch = 0 /\ i_batch = 0
    /\ train_loss = Unbound /\ val_loss = Unbound
    /\ train_losses = <<>> /\ val_losses = <<>>
    /\ batch_losses = NoBatchLosses

\* nothing but the train arrays is set
NothingRun ==
    /\ test_images_array = None /\ test_targets_array = None
    /\ val_images_array = None /\ val_targets_array = None
    /\ s = 0 /\ k = 0
    /\ crop_coords = <<>>
    /\ image_patches = <<>> /\ target_patches = <<>>
    /\ train_images_patches = None /\ train_targets_patches = None
    /\ train_mean = NoValue /\ train_std = NoValue
    /\ target_mean = NoValue /\ target_std = NoValue
    /\ dataset = NoDataset
    /\ stream = <<>>
    /\ index = 0 /\ rotate_state = 0 /\ flip_state = 0
    /\ image_batch = None /\ target_batch = None
    /\ model = "untrained"
    /\ test_dataset = NoDataset
    /\ i_test = 0
    /\ output = None
    /\ predictions = <<>>
    /\ augmented = <<>> /\ normalized = None /\ denormalized = None
    /\ val_images_patches = None /\ val_targets_patches = None
    /\ val_dataset = NoDataset
    /\ shares_memory = FALSE
    /\ frames = <<>>

\* no train arrays are loaded
NoInputs == image_array = None /\ target_array = None /\ patch_size = <<>>

\* the state of a notebook in which no cell of the pipeline has run
Idle == NoInputs /\ NothingRun /\ NoFiles /\ NoLoop

Init ==
    /\ pc = "create_patches"
    /\ InitPatches
    /\ train_mean = NoValue /\ train_std = NoValue
    /\ target_mean = NoValue /\ target_std = NoValue
    /\ dataset = NoDataset
    /\ stream = <<>>
    /\ index = 0 /\ rotate_state = 0 /\ flip_state = 0
    /\ image_batch = None /\ target_batch = None
    /\ model = "untrained"
    /\ test_dataset = NoDataset
    /\ i_test = 0
    /\ output = None
    /\ predictions = <<>>
    /\ args = NoArgs
    /\ augmented = <<>> /\ normalized = None /\ denormalized = None
    /\ val_images_patches = None /\ val_targets_patches = None
    /\ val_dataset = NoDataset
    /\ shares_memory = FALSE
    /\ NoFiles /\ NoLoop
    /\ frames = <<>>

Next ==
    \/ DrawPatch
    \/ StackPatches
    \/ ComputeStatistics
    \/ DatasetInit
    \/ GetItem
    \/ Train
    \/ TestDatasetInit
    \/ PredictStep

Spec == Init /\ [][Next]_vars

\* ------------------------------------------- augment_batch called on its own
MaxSeed == 0

Seeds == {DefaultSeed} \cup 0..MaxSeed

PatchShapes == { <<1, 1>>, <<2, 2>>, <<1, 2>>, <<2, 3>>, <<1, 2, 2>>, <<1, 3, 3>> }

\* a float32 patch with pairwise distinct pixel values
PatchInput(shape) == AsType(IndexFirst(Ramp(1, shape, 1), 0), "float32")

\* a float32 patch in which every pixel value but the last occurs twice
PairedInput(shape) ==
    [PatchInput(shape) EXCEPT
        !.data = [j \in 1..SeqProd(shape) |-> Int2Rat((j + 1) \div 2)]]

InitAugment ==
    /\ pc = "augment_batch"
    /\ Idle
    /\ \E sh \in PatchShapes, f \in TargetFactors :
          \E x \in {PatchInput(sh), PairedInput(sh)} :
             args = [fn |-> "augment_batch", patch |-> x,
                     target |-> Scale(x, f), seed |-> DefaultSeed]

\* augment_batch(patch, target, seed)
AugmentBatchCall ==
    /\ pc = "augment_batch"
    /\ \E seed \in Seeds :
          /\ args' = [args EXCEPT !.seed = seed]
          /\ DrawStates(seed)
    /\ augmented' = augment_batch(args.patch, args.target, rotate_state', flip_state')
    /\ pc' = pc
    /\ UNCHANGED <<patchVars, statVars, testVars, fileVars, loopVars, valVars, shares_memory,
                   frames, dataset, index, image_batch,
                   target_batch, model, predVars, normalized, denormalized>>

NextAugment == AugmentBatchCall

SpecAugment == InitAugment /\ [][NextAugment]_vars

\* --------------------------- normalize and denormalize called on their own
MaxNum == 2

MaxDen == 2

\* the means and standard deviations tried, zero and negative ones included
Numbers == {Rat(n, d) : n \in (-MaxNum)..MaxNum, d \in 1..MaxDen}

PixelValues == { <<-1, 1>>, <<0, 1>>, <<1, 2>>, <<3, 1>> }

ImageInputs ==
    {[shape |-> <<1, 2>>, dtype |-> "float32", data |-> <<a, b>>] :
        a \in PixelValues, b \in PixelValues}

InitNormalize ==
    /\ pc = "normalize"
    /\ Idle
    /\ \E x \in ImageInputs, m \in Numbers, sd \in Numbers :
          args = [fn |-> "normalize", image |-> x, mean |-> m, std |-> sd]

\* normalize(image, mean, std)
NormalizeCall ==
    /\ pc = "normalize"
    /\ normalized' = normalize(args.image, args.mean, args.std)
    /\ pc' = "denormalize"
    /\ UNCHANGED <<patchVars, statVars, testVars, fileVars, loopVars, valVars, shares_memory,
                   frames, dataset, getVars, model,
                   predVars, args, augmented, denormalized>>

\* denormalize(normalized, mean, std)
DenormalizeCall ==
    /\ pc = "denormalize"
    /\ denormalized' = denormalize(normalized, args.mean, args.std)
    /\ pc' = "returned"
    /\ UNCHANGED <<patchVars, statVars, testVars, fileVars, loopVars, valVars, shares_memory,
                   frames, dataset, getVars, model,
                   predVars, args, augmented, normalized>>

NextNormalize == NormalizeCall \/ DenormalizeCall

SpecNormalize == InitNormalize /\ [][NextNormalize]_vars

\* ------------------------------------- create_patches called on its own
\* target_sample = target_array[s] with s past the last target image
RaiseIndexError ==
    /\ pc = "create_patches"
    /\ s < image_array.shape[1]
    /\ s >= target_array.shape[1]
    /\ pc' = "IndexError"
    /\ UNCHANGED <<patchVars, statVars, testVars, fileVars, loopVars, valVars, shares_memory, frames,
                   dataset, getVars, model, predVars, callVars>>

\* rng.integers(0, high, endpoint=True) with high < 0
RaiseValueError ==
    /\ pc = "create_patches"
    /\ s < image_array.shape[1]
    /\ s < target_array.shape[1]
    /\ \E i \in 1..Len(patch_size) : High(sample.shape, patch_size, i) < 0
    /\ pc' = "ValueError"
    /\ UNCHANGED <<patchVars, statVars, testVars, fileVars, loopVars, valVars, shares_memory, frames,
                   dataset, getVars, model, predVars, callVars>>

\* np.stack of arrays that do not all have the same shape
RaiseStackError ==
    /\ pc = "create_patches"
    /\ s = image_array.shape[1]
    /\ ~(CanStack(image_patches) /\ CanStack(target_patches))
    /\ pc' = "ValueError"
    /\ UNCHANGED <<patchVars, statVars, testVars, fileVars, loopVars, valVars, shares_memory, frames,
                   dataset, getVars, model, predVars, callVars>>

\* arr with its n-th value overwritten by v
SetValue(arr, n, v) == [arr EXCEPT !.data[n] = v]

\* the place of the first pixel of the first returned patch in its source array
SourceOf(arr, patches) == CHOOSE n \in DOMAIN arr.data : arr.data[n] = patches.data[1]

\* the caller overwrites a pixel of the returned stacks; arrays that share
\* memory with them change with them
WritePatch ==
    /\ pc = "statistics"
    /\ train_images_patches' = SetValue(train_images_patches, 1, <<-1, 1>>)
    /\ train_targets_patches' = SetValue(train_targets_patches, 1, <<-1, 1>>)
    /\ IF shares_memory
       THEN /\ image_array' =
                  SetValue(image_array, SourceOf(image_array, train_images_patches),
                           <<-1, 1>>)
            /\ target_array' =
                  SetValue(target_array, SourceOf(target_array, train_targets_patches),
                           <<-1, 1>>)
       ELSE UNCHANGED <<image_array, target_array>>
    /\ pc' = "written"
    /\ UNCHANGED <<patch_size, s, k, crop_coords, image_patches, target_patches>>
    /\ UNCHANGED <<statVars, testVars, fileVars, loopVars, valVars, shares_memory, frames, dataset,
                   getVars, model, predVars, callVars>>

\* <<shape of image_array, shape of target_array, patch_size>> of the calls explored
PatchCases ==
    { <<<<1, 2, 3>>, <<1, 2, 3>>, <<2, 2>>>>,
      <<<<2, 2, 2>>, <<2, 2, 2>>, <<1, 2>>>>,
      <<<<1, 2, 2>>, <<2, 2, 2>>, <<1, 2>>>>,
      <<<<2, 2, 2>>, <<1, 2, 2>>, <<2, 2>>>>,
      <<<<2, 2, 3>>, <<2, 2, 2>>, <<2, 2>>>>,
      <<<<1, 2, 2>>, <<1, 2, 3>>, <<2, 2>>>>,
      <<<<2, 2, 2>>, <<2, 2, 2>>, <<3, 2>>>>,
      <<<<1, 2, 2>>, <<1, 2, 2>>, <<2, 3>>>>,
      <<<<1, 3, 3, 2>>, <<1, 3, 3, 2>>, <<2, 3>>>>,
      <<<<1, 3, 2, 2>>, <<1, 3, 2, 2>>, <<2, 2>>>> }

InitPatchesCall ==
    /\ pc = "create_patches"
    /\ NothingRun
    /\ NoFiles /\ NoLoop
    /\ args = NoArgs
    /\ \E c \in PatchCases :
          /\ image_array = Ramp(c[1][1], Tail(c[1]), 0)
          /\ target_array = Ramp(c[2][1], Tail(c[2]), 0)
          /\ patch_size = c[3]

NextPatches ==
    \/ DrawPatch
    \/ StackPatches
    \/ RaiseIndexError
    \/ RaiseValueError
    \/ RaiseStackError
    \/ WritePatch

SpecPatches == InitPatchesCall /\ [][NextPatches]_vars

\* ------------------------------------------------ the notebook as written
\* the lists of coordinates a whole create_patches call can draw
CoordSeqs(images, psize) ==
    LET shape == Tail(images.shape)
    IN  [1..(images.shape[1] * NPatches(shape, psize)) -> CoordChoices(shape, psize)]

\* what create_patches returns when its draws are coords, one per patch
create_patches(images, targets, psize, coords) ==
    LET per == NPatches(Tail(images.shape), psize)
    IN  <<Stack([j \in 1..Len(coords) |->
                    Crop(IndexFirst(images, (j - 1) \div per), coords[j], psize)]),
          Stack([j \in 1..Len(coords) |->
                    TargetCrop(IndexFirst(targets, (j - 1) \div per), coords[j], psize)])>>

\* the cell that calls create_patches on the train and on the validation arrays
CreatePatchesCell ==
    /\ pc = "create_patches_cell"
    /\ \E tc \in CoordSeqs(image_array, patch_size),
          vc \in CoordSeqs(val_images_array, patch_size) :
          LET tr == create_patches(image_array, target_array, patch_size, tc)
              va == create_patches(val_images_array, val_targets_array, patch_size, vc)
          IN  /\ train_images_patches' = tr[1]
              /\ train_targets_patches' = tr[2]
              /\ val_images_patches' = va[1]
              /\ val_targets_patches' = va[2]
    /\ pc' = "statistics"
    /\ UNCHANGED <<image_array, target_array, patch_size, s, k, crop_coords,
                   image_patches, target_patches>>
    /\ UNCHANGED <<val_images_array, val_targets_array, val_dataset>>
    /\ UNCHANGED <<statVars, testVars, fileVars, loopVars, shares_memory, frames, dataset, getVars,
                   model, predVars, callVars>>

\* train_dataset = CAREDataset(image_data=..., target_data=...) and val_dataset
\* likewise: apply_augmentations is left at its default
DatasetsCell ==
    /\ pc = "dataset"
    /\ val_images_patches # None
    /\ dataset' = CAREDataset(train_images_patches, train_targets_patches, FALSE)
    /\ val_dataset' = CAREDataset(val_images_patches, val_targets_patches, FALSE)
    /\ pc' = "loading"
    /\ UNCHANGED <<val_images_array, val_targets_array, val_images_patches,
                   val_targets_patches>>
    /\ UNCHANGED <<patchVars, statVars, testVars, fileVars, loopVars, shares_memory, frames, getVars,
                   model, predVars, callVars>>

ValGetItemOwnStatistics ==
    /\ pc = "loading"
    /\ val_dataset # NoDataset
    /\ \E idx \in 0..(DatasetLen(val_dataset) - 1) :
          /\ index' = idx
          /\ image_batch' =
                AsType(NewAxis(normalize(IndexFirst(val_dataset.image_data, idx),
                                         Mean(val_images_array),
                                         Std(val_images_array))), "float32")
          /\ target_batch' =
                AsType(NewAxis(normalize(IndexFirst(val_dataset.target_data, idx),
                                         Mean(val_targets_array),
                                         Std(val_targets_array))), "float32")
    /\ pc' = pc
    /\ UNCHANGED <<patchVars, statVars, testVars, fileVars, loopVars, valVars, shares_memory, frames,
                   dataset, model, predVars, callVars, stream, rotate_state, flip_state>>

\* batch, target = val_dataset[idx], as the validation loop's loader asks
ValGetItem ==
    /\ pc = "loading"
    /\ val_dataset # NoDataset
    /\ \E idx \in 0..(DatasetLen(val_dataset) - 1) :
          /\ index' = idx
          /\ IF val_dataset.patch_augment
             THEN DrawStates(DefaultSeed)
             ELSE UNCHANGED <<stream, rotate_state, flip_state>>
          /\ image_batch' = GetItemPair(val_dataset, idx, rotate_state', flip_state')[1]
          /\ target_batch' = GetItemPair(val_dataset, idx, rotate_state', flip_state')[2]
    /\ pc' = pc
    /\ UNCHANGED <<patchVars, statVars, testVars, fileVars, loopVars, valVars, shares_memory, frames,
                   dataset, model, predVars, callVars>>

InitNotebook ==
    /\ pc = "create_patches_cell"
    /\ InitPatches
    /\ train_mean = NoValue /\ train_std = NoValue
    /\ target_mean = NoValue /\ target_std = NoValue
    /\ dataset = NoDataset
    /\ stream = <<>>
    /\ index = 0 /\ rotate_state = 0 /\ flip_state = 0
    /\ image_batch = None /\ target_batch = None
    /\ model = "untrained"
    /\ test_dataset = NoDataset
    /\ i_test = 0
    /\ output = None
    /\ predictions = <<>>
    /\ args = NoArgs
    /\ augmented = <<>> /\ normalized = None /\ denormalized = None
    /\ val_images_patches = None /\ val_targets_patches = None
    /\ val_dataset = NoDataset
    /\ shares_memory = FALSE
    /\ NoFiles /\ NoLoop
    /\ frames = <<>>

\* the training loop draws from train_dataset and val_dataset in every epoch
NextNotebook ==
    \/ CreatePatchesCell
    \/ ComputeStatistics
    \/ DatasetsCell
    \/ GetItem
    \/ ValGetItem
    \/ Train
    \/ TestDatasetInit
    \/ PredictStep

SpecNotebook == InitNotebook /\ [][NextNotebook]_vars

\* ------------------------------ __getitem__ calls of concurrent loader workers
Workers == 1..MaxWorkers

NoFrame == [pc |-> "idle", index |-> 0, patch |-> None, target |-> None, ret |-> <<>>]

FrameOfSelf(w) == 1

\* patch and target are local variables: every call has a frame of its own
Frame(w) == w

\* a stack of n images of the given shape that all have the pixel value v
Constant(n, shape, v) ==
    [shape |-> <<n>> \o shape, dtype |-> "uint16",
     data  |-> [j \in 1..(n * SeqProd(shape)) |-> Int2Rat(v)]]

\* the train images of the datasets the workers draw from; the targets are
\* twice as bright
WorkerImages == {Ramp(2, <<2, 2>>, 0), Constant(2, <<2, 2>>, 3)}

\* the state in which the patches are created, the statistics computed and a
\* dataset is constructed, with no __getitem__ call made yet
InitWorkers ==
    /\ pc = "workers"
    /\ \E img \in WorkerImages, flag \in BOOLEAN :
          \E tc \in CoordSeqs(img, <<2, 2>>) :
             LET tgt  == Scale(img, 2)
                 made == create_patches(img, tgt, <<2, 2>>, tc)
             IN  /\ image_array = img
                 /\ target_array = tgt
                 /\ patch_size = <<2, 2>>
                 /\ s = img.shape[1] /\ k = 0
                 /\ crop_coords = tc[Len(tc)]
                 /\ image_patches = [j \in 1..Len(tc) |-> IndexFirst(made[1], j - 1)]
                 /\ target_patches = [j \in 1..Len(tc) |-> IndexFirst(made[2], j - 1)]
                 /\ train_images_patches = made[1]
                 /\ train_targets_patches = made[2]
                 /\ train_mean = Mean(img) /\ train_std = Std(img)
                 /\ target_mean = Mean(tgt)
                 /\ target_std = Std(tgt)
                 /\ dataset = CAREDataset(made[1], made[2], flag)
    /\ test_images_array = None /\ test_targets_array = None
    /\ val_images_array = None /\ val_targets_array = None
    /\ val_images_patches = None /\ val_targets_patches = None
    /\ val_dataset = NoDataset
    /\ stream = <<>>
    /\ index = 0 /\ rotate_state = 0 /\ flip_state = 0
    /\ image_batch = None /\ target_batch = None
    /\ model = "untrained"
    /\ test_dataset = NoDataset
    /\ i_test = 0
    /\ output = None
    /\ predictions = <<>>
    /\ args = NoArgs
    /\ augmented = <<>> /\ normalized = None /\ denormalized = None
    /\ shares_memory = FALSE
    /\ NoFiles /\ NoLoop
    /\ frames = [w \in Workers |-> NoFrame]

\* the variables a step of a __getitem__ call leaves alone
GetItemFrame ==
    /\ pc' = pc
    /\ UNCHANGED <<patchVars, statVars, testVars, fileVars, loopVars, valVars, shares_memory, dataset,
                   index, image_batch, target_batch, model, predVars, callVars>>

\* a loader worker calls dataset[idx]
CallGetItem(w) ==
    /\ pc = "workers"
    /\ frames[w].pc \in {"idle", "returned"}
    /\ \E idx \in 0..(DatasetLen(dataset) - 1) :
          frames' = [frames EXCEPT ![w].pc = "patch", ![w].index = idx, ![w].ret = <<>>]
    /\ GetItemFrame
    /\ UNCHANGED <<stream, rotate_state, flip_state>>

\* patch = self.image_data[index]
ReadPatch(w) ==
    /\ frames[w].pc = "patch"
    /\ frames' = [frames EXCEPT
                     ![Frame(w)].patch = IndexFirst(dataset.image_data, frames[w].index),
                     ![w].pc = "target"]
    /\ GetItemFrame
    /\ UNCHANGED <<stream, rotate_state, flip_state>>

\* target = self.target_data[index]
ReadTarget(w) ==
    /\ frames[w].pc = "target"
    /\ frames' = [frames EXCEPT
                     ![Frame(w)].target = IndexFirst(dataset.target_data, frames[w].index),
                     ![w].pc = "augment"]
    /\ GetItemFrame
    /\ UNCHANGED <<stream, rotate_state, flip_state>>

\* if self.patch_augment: patch, target = augment_batch(patch=patch, target=target)
AugmentStep(w) ==
    /\ frames[w].pc = "augment"
    /\ IF dataset.patch_augment
       THEN /\ DrawStates(DefaultSeed)
            /\ LET aug == augment_batch(frames[Frame(w)].patch, frames[Frame(w)].target,
                                        rotate_state', flip_state')
               IN  frames' = [frames EXCEPT ![Frame(w)].patch = aug[1],
                                            ![Frame(w)].target = aug[2],
                                            ![w].pc = "normalize_patch"]
       ELSE /\ frames' = [frames EXCEPT ![w].pc = "normalize_patch"]
            /\ UNCHANGED <<stream, rotate_state, flip_state>>
    /\ GetItemFrame

\* patch = normalize(patch, train_mean, train_std)
NormalizePatch(w) ==
    /\ frames[w].pc = "normalize_patch"
    /\ frames' = [frames EXCEPT
                     ![Frame(w)].patch = normalize(frames[Frame(w)].patch,
                                                   train_mean, train_std),
                     ![w].pc = "normalize_target"]
    /\ GetItemFrame
    /\ UNCHANGED <<stream, rotate_state, flip_state>>

\* target = normalize(target, target_mean, target_std)
NormalizeTarget(w) ==
    /\ frames[w].pc = "normalize_target"
    /\ frames' = [frames EXCEPT
                     ![Frame(w)].target = normalize(frames[Frame(w)].target,
                                                    target_mean, target_std),
                     ![w].pc = "return"]
    /\ GetItemFrame
    /\ UNCHANGED <<stream, rotate_state, flip_state>>

\* return patch[np.newaxis].astype(np.float32), target[np.newaxis].astype(np.float32)
ReturnPair(w) ==
    /\ frames[w].pc = "return"
    /\ frames' = [frames EXCEPT
                     ![w].ret = <<AsType(NewAxis(frames[Frame(w)].patch), "float32"),
                                  AsType(NewAxis(frames[Frame(w)].target), "float32")>>,
                     ![w].pc = "returned"]
    /\ GetItemFrame
    /\ UNCHANGED <<stream, rotate_state, flip_state>>

NextWorkers ==
    \E w \in Workers :
       \/ CallGetItem(w)
       \/ ReadPatch(w)
       \/ ReadTarget(w)
       \/ AugmentStep(w)
       \/ NormalizePatch(w)
       \/ NormalizeTarget(w)
       \/ ReturnPair(w)

SpecWorkers == InitWorkers /\ [][NextWorkers]_vars

\* ------------------------------ __getitem__ called with indices of any kind
MaxItems == 2

\* the indices tried: in range, negative, and past either end
Indexes == (-(MaxItems + 1))..(MaxItems + 1)

\* a stack of n float32 patches of shape (1, 2)
Items(n) == AsType(Ramp(n, <<1, 2>>, 0), "float32")

InRangeFromZero(arr, i) == 0 <= i /\ i < arr.shape[1]

\* arr[i] raises no IndexError: numpy takes a negative i as counted from the end
InRange(arr, i) == -arr.shape[1] <= i /\ i < arr.shape[1]

\* arr[i] for an integer i in range
Item(arr, i) == IndexFirst(arr, IF i < 0 THEN i + arr.shape[1] ELSE i)

\* __getitem__ for an index both arrays accept
GetItemAt(ds, idx, rot, flip) ==
    LET patch  == Item(ds.image_data, idx)
        target == Item(ds.target_data, idx)
        aug    == IF ds.patch_augment
                  THEN augment_batch(patch, target, rot, flip)
                  ELSE <<patch, target>>
    IN  <<AsType(NewAxis(normalize(aug[1], train_mean, train_std)), "float32"),
          AsType(NewAxis(normalize(aug[2], target_mean, target_std)), "float32")>>

\* a dataset constructed from two stacks of any lengths, the statistics being set
InitDataset ==
    /\ pc = "get"
    /\ NoInputs
    /\ \E ni \in 1..MaxItems, nt \in 1..MaxItems, flag \in BOOLEAN :
          dataset = CAREDataset(Items(ni), Scale(Items(nt), 2), flag)
    /\ train_mean = <<1, 1>> /\ train_std = <<2, 1>>
    /\ target_mean = <<2, 1>> /\ target_std = <<4, 1>>
    /\ test_images_array = None /\ test_targets_array = None
    /\ val_images_array = None /\ val_targets_array = None
    /\ val_images_patches = None /\ val_targets_patches = None
    /\ val_dataset = NoDataset
    /\ s = 0 /\ k = 0
    /\ crop_coords = <<>>
    /\ image_patches = <<>> /\ target_patches = <<>>
    /\ train_images_patches = None /\ train_targets_patches = None
    /\ stream = <<>>
    /\ index = 0 /\ rotate_state = 0 /\ flip_state = 0
    /\ image_batch = None /\ target_batch = None
    /\ model = "untrained"
    /\ test_dataset = NoDataset
    /\ i_test = 0
    /\ output = None
    /\ predictions = <<>>
    /\ args = NoArgs
    /\ augmented = <<>> /\ normalized = None /\ denormalized = None
    /\ shares_memory = FALSE
    /\ NoFiles /\ NoLoop
    /\ frames = <<>>

\* image_batch, target_batch = dataset[idx] with an index both arrays accept
GetItemReturns ==
    /\ pc = "get"
    /\ \E idx \in Indexes :
          /\ InRange(dataset.image_data, idx)
          /\ InRange(dataset.target_data, idx)
          /\ index' = idx
          /\ IF dataset.patch_augment
             THEN DrawStates(DefaultSeed)
             ELSE UNCHANGED <<stream, rotate_state, flip_state>>
          /\ image_batch' = GetItemAt(dataset, idx, rotate_state', flip_state')[1]
          /\ target_batch' = GetItemAt(dataset, idx, rotate_state', flip_state')[2]
          /\ args' = [fn |-> "__getitem__", index |-> idx, raised |-> "none"]
    /\ pc' = pc
    /\ UNCHANGED <<patchVars, statVars, testVars, fileVars, loopVars, valVars, shares_memory,
                   frames, dataset, model, predVars, augmented, normalized,
                   denormalized>>

\* dataset[idx] with an index self.image_data[index] or self.target_data[index]
\* rejects: IndexError, nothing is assigned
GetItemRaises ==
    /\ pc = "get"
    /\ \E idx \in Indexes :
          /\ ~(InRange(dataset.image_data, idx) /\ InRange(dataset.target_data, idx))
          /\ index' = idx
          /\ args' = [fn |-> "__getitem__", index |-> idx, raised |-> "IndexError"]
    /\ pc' = pc
    /\ UNCHANGED <<patchVars, statVars, testVars, fileVars, loopVars, valVars, shares_memory,
                   frames, dataset, model, predVars, augmented, normalized,
                   denormalized, stream, rotate_state, flip_state,
                   image_batch, target_batch>>

NextDataset == GetItemReturns \/ GetItemRaises

SpecDataset == InitDataset /\ [][NextDataset]_vars

\* ------------------------------------------- the train/validation split cell
MaxFiles == 3

\* the orders in which n items can come
Orders(n) ==
    {p \in [1..n -> 1..n] : \A i, j \in 1..n : i # j => p[i] # p[j]}

\* the path of the file called name in the directory dir
File(dir, name) == [parent |-> dir, name |-> name]

\* list(Path(dir).rglob("*.tif")) on a directory of n files: the files come in
\* the order the file system yields them
Listings(dir, n) ==
    {[i \in 1..n |-> File(dir, p[i])] : p \in Orders(n)}

\* np.array(files)[shuffled_indices]
Take(files, perm) == [i \in 1..Len(perm) |-> files[perm[i]]]

\* all([i.name == j.name for i, j in zip(a, b)])
NamesMatch(a, b) == \A i \in 1..Min(Len(a), Len(b)) : a[i].name = b[i].name

CutRounded(n) == (4 * n + 2) \div 5

\* int(train_files_percentage * n) with train_files_percentage = 0.8
Cut(n) == (4 * n) \div 5

\* the two directories are listed
InitSplit ==
    /\ pc = "split_cell"
    /\ NoInputs /\ NothingRun /\ NoLoop
    /\ \E n \in 1..MaxFiles, m \in 1..MaxFiles :
          /\ image_files \in Listings("low", n)
          /\ target_files \in Listings("GT", m)
    /\ args = [fn |-> "split", image_files |-> image_files,
               target_files |-> target_files]
    /\ shuffled_indices = <<>>
    /\ train_image_files = <<>> /\ train_target_files = <<>>
    /\ val_image_files = <<>> /\ val_target_files = <<>>

\* assert len(image_files) == len(target_files)
AssertLengths ==
    /\ pc = "split_cell"
    /\ pc' = IF Len(image_files) = Len(target_files) THEN "shuffle"
             ELSE "AssertionError"
    /\ UNCHANGED <<patchVars, statVars, testVars, fileVars, loopVars, valVars,
                   shares_memory, frames, dataset, getVars, model, predVars,
                   callVars>>

\* np.random.seed(seed) up to the assert that the shuffled files match
Shuffle ==
    /\ pc = "shuffle"
    /\ \E perm \in Orders(Len(image_files)) :
          /\ shuffled_indices' = perm
          /\ image_files' = Take(image_files, perm)
          /\ target_files' = Take(target_files, perm)
    /\ pc' = IF NamesMatch(image_files', target_files') THEN "slice"
             ELSE "AssertionError"
    /\ UNCHANGED <<train_image_files, train_target_files, val_image_files,
                   val_target_files>>
    /\ UNCHANGED <<patchVars, statVars, testVars, loopVars, valVars,
                   shares_memory, frames, dataset, getVars, model, predVars,
                   callVars>>

\* the four slices and the asserts that train and validation files match
SliceFiles ==
    /\ pc = "slice"
    /\ train_image_files' = SubSeq(image_files, 1, Cut(Len(image_files)))
    /\ train_target_files' = SubSeq(target_files, 1, Cut(Len(target_files)))
    /\ val_image_files' =
          SubSeq(image_files, Cut(Len(image_files)) + 1, Len(image_files))
    /\ val_target_files' =
          SubSeq(target_files, Cut(Len(target_files)) + 1, Len(target_files))
    /\ pc' = IF /\ NamesMatch(train_image_files', train_target_files')
                /\ NamesMatch(val_image_files', val_target_files')
             THEN "split_done" ELSE "AssertionError"
    /\ UNCHANGED <<image_files, target_files, shuffled_indices>>
    /\ UNCHANGED <<patchVars, statVars, testVars, loopVars, valVars,
                   shares_memory, frames, dataset, getVars, model, predVars,
                   callVars>>

NextSplit == AssertLengths \/ Shuffle \/ SliceFiles

SpecSplit == InitSplit /\ [][NextSplit]_vars

\* ---------------------------------------------------------- the training loop
n_epochs == 5

MaxBatches == 2

\* the values loss(output, target) takes
LossValues == {1, 2}

\* the 0-dimensional tensor loss(output, target) returns
Tensor(l) == [kind |-> "tensor", item |-> l]

\* the Python int 0
IntZero == [kind |-> "int", item |-> 0]

\* train_losses = []; val_losses = [], with loaders of some lengths
InitTraining ==
    /\ pc = "train_loop"
    /\ NoInputs /\ NothingRun /\ NoFiles /\ NoLoop
    /\ \E nt \in 0..MaxBatches, nv \in 0..MaxBatches :
          args = [fn |-> "training_loop", train_batches |-> nt, val_batches |-> nv]

\* the variables the training loop leaves alone
LoopFrame ==
    UNCHANGED <<patchVars, statVars, testVars, fileVars, valVars, shares_memory,
                frames, dataset, getVars, model, predVars, callVars>>

\* one iteration of the loop over train_dataloader
TrainBatch ==
    /\ pc = "train_loop"
    /\ i_batch < args.train_batches
    /\ \E l \in LossValues :
          /\ train_loss' = Tensor(l)
          /\ batch_losses' =
                IF i_batch = 0 THEN [train |-> <<l>>, val |-> <<>>]
                ELSE [batch_losses EXCEPT !.train = Append(@, l)]
    /\ i_batch' = i_batch + 1
    /\ pc' = pc
    /\ UNCHANGED <<epoch, val_loss, train_losses, val_losses>>
    /\ LoopFrame

\* model.eval(); val_loss = 0
StartValidation ==
    /\ pc = "train_loop"
    /\ i_batch = args.train_batches
    /\ val_loss' = IntZero
    /\ i_batch' = 0
    /\ pc' = "val_loop"
    /\ UNCHANGED <<epoch, train_loss, train_losses, val_losses, batch_losses>>
    /\ LoopFrame

ValBatchAccumulating ==
    /\ pc = "val_loop"
    /\ i_batch < args.val_batches
    /\ \E l \in LossValues :
          /\ val_loss' = Tensor(val_loss.item + l)
          /\ batch_losses' = [batch_losses EXCEPT !.val = Append(@, l)]
    /\ i_batch' = i_batch + 1
    /\ pc' = pc
    /\ UNCHANGED <<epoch, train_loss, train_losses, val_losses>>
    /\ LoopFrame

\* one iteration of the loop over val_dataloader: val_loss = loss(output, target)
ValBatch ==
    /\ pc = "val_loop"
    /\ i_batch < args.val_batches
    /\ \E l \in LossValues :
          /\ val_loss' = Tensor(l)
          /\ batch_losses' = [batch_losses EXCEPT !.val = Append(@, l)]
    /\ i_batch' = i_batch + 1
    /\ pc' = pc
    /\ UNCHANGED <<epoch, train_loss, train_losses, val_losses>>
    /\ LoopFrame

\* the end of an epoch: logging, print(val_loss.item()) and the two appends;
\* train_loss is not bound when train_dataloader is empty, and val_loss is the
\* int 0 when val_dataloader is empty
EndEpoch ==
    /\ pc = "val_loop"
    /\ i_batch = args.val_batches
    /\ IF train_loss.kind = "unbound"
       THEN /\ pc' = "NameError"
            /\ UNCHANGED <<epoch, i_batch, train_losses, val_losses>>
       ELSE IF val_loss.kind # "tensor"
       THEN /\ pc' = "AttributeError"
            /\ UNCHANGED <<epoch, i_batch, train_losses, val_losses>>
       ELSE /\ train_losses' = Append(train_losses, train_loss.item)
            /\ val_losses' = Append(val_losses, val_loss.item)
            /\ epoch' = epoch + 1
            /\ i_batch' = 0
            /\ pc' = IF epoch + 1 < n_epochs THEN "train_loop" ELSE "trained"
    /\ UNCHANGED <<train_loss, val_loss, batch_losses>>
    /\ LoopFrame

NextTraining == TrainBatch \/ StartValidation \/ ValBatch \/ EndEpoch

SpecTraining == InitTraining /\ [][NextTraining]_vars

\* ------------------------------------------------------------------ claims
\* the spatial extents of a sample: its last Len(patch_size) axes
Spatial(shape) == SubSeq(shape, Len(shape) - Len(patch_size) + 1, Len(shape))

\* the top-left coordinates at which a patch lies inside an image of this shape
InsideCoords(shape) ==
    {c \in [1..Len(patch_size) -> 0..Max(Spatial(shape)[1], Spatial(shape)[Len(patch_size)])] :
        \A d \in 1..Len(patch_size) : c[d] + patch_size[d] <= Spatial(shape)[d]}

\* pixel by pixel, patch and target_patch are image j and target j at offset c
CutAt(patch, target_patch, j, c) ==
    LET img  == IndexFirst(image_array, j)
        tgt  == IndexFirst(target_array, j)
        lead == Len(img.shape) - Len(patch_size)
    IN  /\ patch.shape = SubSeq(img.shape, 1, lead) \o patch_size
        /\ target_patch.shape = patch.shape
        /\ \A n \in 1..SeqProd(patch.shape) :
              LET idx == Unravel(n - 1, patch.shape)
                  at  == [d \in 1..Len(idx) |->
                             IF d <= lead THEN idx[d] ELSE idx[d] + c[d - lead]]
              IN  /\ patch.data[n] = At(img, at)
                  /\ target_patch.data[n] = At(tgt, at)

\* the patch pairs create_patches holds while it runs and returns when done
PatchPairs ==
    IF pc = "create_patches"
    THEN [n \in 1..Len(image_patches) |-> <<image_patches[n], target_patches[n]>>]
    ELSE [n \in 1..train_images_patches.shape[1] |->
             <<IndexFirst(train_images_patches, n - 1),
               IndexFirst(train_targets_patches, n - 1)>>]

PipelineRuns == pc \in {"create_patches", "statistics", "dataset", "loading",
                        "test_dataset", "predict", "done"}

\* C1: every patch pair is cut from one image index of image_array and of
\* target_array at one and the same top-left coordinate, with equal shapes;
\* when target_array equals image_array the two patches of a pair are equal.
C1_Pairing ==
    PipelineRuns =>
        /\ Len(image_patches) = Len(target_patches)
        /\ \A n \in 1..Len(PatchPairs) :
              \E j \in 0..(image_array.shape[1] - 1),
                 c \in InsideCoords(image_array.shape) :
                    CutAt(PatchPairs[n][1], PatchPairs[n][2], j, c)
        /\ target_array.data = image_array.data =>
              \A n \in 1..Len(PatchPairs) :
                 PatchPairs[n][1].data = PatchPairs[n][2].data

C1_Witness ==
    /\ pc = "statistics"
    /\ target_array.data = image_array.data
    /\ image_array.shape[1] = 2
    /\ crop_coords = <<0, 1>>
    /\ Len(PatchPairs) = 4
    /\ PatchPairs[4][1].data = PatchPairs[4][2].data
    /\ PatchPairs[1][1].data # PatchPairs[4][1].data

\* C4: on a single image create_patches returns ceil(prod(S)/prod(P)) patches:
\* the least n with n * prod(P) >= prod(S); 7 for a 10x10 image and (4, 4).
C4_CoverageCount ==
    /\ NPatches(<<10, 10>>, <<4, 4>>) = 7
    /\ (PipelineRuns /\ pc # "create_patches" /\ image_array.shape[1] = 1) =>
          LET n  == train_images_patches.shape[1]
              sz == SeqProd(Tail(image_array.shape))
          IN  /\ n * SeqProd(patch_size) >= sz
              /\ (n - 1) * SeqProd(patch_size) < sz
              /\ train_targets_patches.shape[1] = n

C4_Witness ==
    /\ pc = "statistics"
    /\ image_array.shape = <<1, 2, 3>>
    /\ patch_size = <<2, 2>>
    /\ train_images_patches.shape = <<2, 2, 2>>

\* C5: every drawn coordinate d lies in 0 .. S[d] - P[d], both ends can be
\* drawn, and every patch has exactly the shape patch_size.
C5_CoordinateBounds ==
    PipelineRuns =>
        LET S == Spatial(image_array.shape)
        IN  /\ \A d \in DOMAIN crop_coords :
                  0 <= crop_coords[d] /\ crop_coords[d] <= S[d] - patch_size[d]
            /\ \A n \in 1..Len(image_patches) :
                  /\ image_patches[n].shape = patch_size
                  /\ target_patches[n].shape = patch_size
            /\ (pc = "create_patches" /\ s < image_array.shape[1]) =>
                  \A d \in 1..Len(patch_size) :
                     \A v \in {0, S[d] - patch_size[d]} :
                        ENABLED (DrawCoords /\ crop_coords'[d] = v)

C5_Witness ==
    /\ pc = "create_patches"
    /\ image_array.shape = <<2, 2, 3>>
    /\ patch_size = <<2, 2>>
    /\ crop_coords = <<0, 1>>
    /\ Len(image_patches) = 3
    /\ image_patches[3].shape = <<2, 2>>

\* C2: augment_batch turns patch and target by one and the same rotation
\* count and flip flag, whatever the seed; a target that is patch * 2 is
\* still the augmented patch * 2.
C2_AugmentationPairing ==
    (pc = "augment_batch" /\ augmented # <<>>) =>
        /\ \E rot \in RotateStates, flip \in FlipStates :
              /\ augmented[1] = _flip_and_rotate(args.patch, rot, flip)
              /\ augmented[2] = _flip_and_rotate(args.target, rot, flip)
        /\ args.target = Scale(args.patch, 2) =>
              augmented[2] = Scale(augmented[1], 2)

C2_Witness ==
    /\ pc = "augment_batch"
    /\ augmented # <<>>
    /\ args.seed # DefaultSeed
    /\ args.patch.shape = <<2, 3>>
    /\ args.target = Scale(args.patch, 2)
    /\ rotate_state = 1 /\ flip_state = 1
    /\ augmented[1].shape = <<3, 2>>
    /\ augmented[1] # args.patch
    /\ augmented[2] = Scale(augmented[1], 2)

\* C3: on a dataset built with augmentation every __getitem__ call draws its
\* rotation count and flip flag afresh: whatever earlier calls drew, each of
\* the eight states can be the one the next call applies.
C3_FreshDraw ==
    (pc = "loading" /\ dataset.patch_augment) =>
        \A rot \in RotateStates, flip \in FlipStates :
           ENABLED (GetItem /\ rotate_state' = rot /\ flip_state' = flip)

\* C6: for finite x and mean and a nonzero std, denormalize(normalize(x, mean,
\* std), mean, std) is x again; with mean 0 and std 1 normalize changes nothing.
C6_RoundTrip ==
    /\ (pc = "returned" /\ args.std[1] # 0) =>
          /\ denormalized.shape = args.image.shape
          /\ denormalized.data = args.image.data
    /\ (pc \in {"denormalize", "returned"}
        /\ args.mean = <<0, 1>> /\ args.std = <<1, 1>>) =>
          normalized.data = args.image.data

C6_Witness ==
    /\ pc = "returned"
    /\ args.std = <<-1, 2>>
    /\ args.mean = <<1, 2>>
    /\ args.image.data = <<<<3, 1>>, <<-1, 1>>>>
    /\ normalized.data = <<<<-5, 1>>, <<3, 1>>>>
    /\ denormalized.data = args.image.data

\* the dataset the latest __getitem__ call was made on
LatestDataset == IF predictions = <<>> THEN dataset ELSE test_dataset

\* the stored array of that call after the augmentation it applied
Viewed(ds, arr) ==
    IF ds.patch_augment
    THEN _flip_and_rotate(IndexFirst(arr, index), rotate_state, flip_state)
    ELSE IndexFirst(arr, index)

\* C7: what __getitem__ returns is the source patch normalized with train_mean
\* and train_std and the target patch normalized with target_mean and target_std.
C7_OwnStatistics ==
    (PipelineRuns /\ image_batch # None) =>
        /\ image_batch.data =
              normalize(Viewed(LatestDataset, LatestDataset.image_data),
                        train_mean, train_std).data
        /\ target_batch.data =
              normalize(Viewed(LatestDataset, LatestDataset.target_data),
                        target_mean, target_std).data

C7_Witness ==
    /\ pc = "loading"
    /\ image_batch # None
    /\ dataset.patch_augment
    /\ index = 1
    /\ train_mean # target_mean /\ train_std # target_std
    /\ image_batch.data # target_batch.data

\* C8: a network output that is the target normalized with the target
\* statistics comes out of the prediction loop as that target again: the
\* loop denormalizes with the pair the targets were normalized with.
C8_InverseOfTargetNormalization ==
    (PipelineRuns /\ predictions # <<>> /\ model = "target") =>
        predictions[Len(predictions)].data =
            IndexFirst(test_targets_array, index).data

C10_LengthFixed ==
    pc \in {"loading", "test_dataset", "predict", "done"} =>
        DatasetLen(dataset) = Len(image_patches)

C10_Witness ==
    /\ pc = "loading"
    /\ image_batch # None
    /\ index = 3
    /\ Len(image_patches) = 4
    /\ DatasetLen(dataset) = 4

\* C11: the dataset the training loop draws from applies augment_batch in
\* __getitem__, and the validation and the test dataset never do.
C11_AugmentInTrainingOnly ==
    /\ dataset # NoDataset => dataset.patch_augment
    /\ ~val_dataset.patch_augment
    /\ ~test_dataset.patch_augment

\* C12: when image_array and target_array differ in the number of images or
\* in the shape of an image, create_patches fails before it samples any patch:
\* it holds no patch and returns nothing.
C12_MismatchFailsFast ==
    image_array.shape # target_array.shape =>
        /\ image_patches = <<>> /\ target_patches = <<>>
        /\ train_images_patches = None /\ train_targets_patches = None

\* patch_size exceeds the spatial extent of the images in some dimension
PatchTooLarge ==
    \E d \in 1..Len(patch_size) :
       patch_size[d] > Spatial(Tail(image_array.shape))[d]

\* C13: when patch_size exceeds the spatial extent of an image in some
\* dimension, create_patches raises an error when it samples from that image:
\* it draws no patch from it, smaller than patch_size or not, and does not return.
C13_PatchTooLargeFails ==
    PatchTooLarge =>
        /\ image_patches = <<>> /\ target_patches = <<>>
        /\ train_images_patches = None /\ train_targets_patches = None
        /\ pc \in {"create_patches", "ValueError"}
        /\ pc = "create_patches" => ENABLED RaiseValueError

\* how often the value v occurs in an array
Count(arr, v) == Cardinality({n \in DOMAIN arr.data : arr.data[n] = v})

\* the same shape and the same pixel values, each as often
Permuted(a, b) ==
    /\ a.shape = b.shape
    /\ \A v \in Values(a) \cup Values(b) : Count(a, v) = Count(b, v)

IsSquarePatch(arr) ==
    Len(arr.shape) = 3 /\ arr.shape[1] = 1 /\ arr.shape[2] = arr.shape[3]

\* C14: on a square patch of shape (1, k, k) every rotation count and flip flag
\* keeps the shape and the multiset of pixel values, for what augment_batch
\* returned and for each of the eight states it can draw.
C14_AugmentationClosure ==
    (pc = "augment_batch" /\ IsSquarePatch(args.patch)) =>
        /\ augmented # <<>> =>
              /\ Permuted(augmented[1], args.patch)
              /\ Permuted(augmented[2], args.target)
        /\ \A rot \in RotateStates, flip \in FlipStates :
              Permuted(_flip_and_rotate(args.patch, rot, flip), args.patch)

C14_Witness ==
    /\ pc = "augment_batch"
    /\ augmented # <<>>
    /\ args.patch = PairedInput(<<1, 3, 3>>)
    /\ rotate_state = 1 /\ flip_state = 1
    /\ augmented[1].shape = <<1, 3, 3>>
    /\ augmented[1].data # args.patch.data
    /\ Count(augmented[1], <<1, 1>>) = 2

\* C15: on N images create_patches returns (the state in which the next cell
\* is the statistics cell) two stacks of the same length, the
\* sum over the images of ceil(prod(S)/prod(P)), with every entry of shape
\* patch_size; the patches of image i precede those of image i + 1, and the
\* k-th input patch and the k-th target patch are cut from the same image.
C15_StackedInImageOrder ==
    pc = "statistics" =>
        LET N  == image_array.shape[1]
            sz == SeqProd(Tail(image_array.shape))
            n  == train_images_patches.shape[1]
        IN  /\ train_images_patches.shape = <<n>> \o patch_size
            /\ train_targets_patches.shape = <<n>> \o patch_size
            /\ \E per \in 1..sz :
                  /\ per * SeqProd(patch_size) >= sz
                  /\ (per - 1) * SeqProd(patch_size) < sz
                  /\ n = N * per
                  /\ \A j \in 1..n :
                        \E c \in InsideCoords(image_array.shape) :
                           CutAt(PatchPairs[j][1], PatchPairs[j][2],
                                 (j - 1) \div per, c)

C15_Witness ==
    /\ pc = "statistics"
    /\ image_array.shape = <<2, 2, 3>>
    /\ patch_size = <<2, 2>>
    /\ train_images_patches.shape = <<4, 2, 2>>
    /\ train_targets_patches.shape = <<4, 2, 2>>
    /\ PatchPairs[2][1].data[1] = <<1, 1>>
    /\ PatchPairs[3][1].data[1] = <<6, 1>>
    /\ PatchPairs[3][2].data[1] = <<12, 1>>

\* the pair dataset[idx] returns when the call runs alone
Alone(idx) ==
    IF dataset.patch_augment /\ DefaultSeed \in DOMAIN stream
    THEN GetItemPair(dataset, idx, stream[DefaultSeed][1], stream[DefaultSeed][2])
    ELSE GetItemPair(dataset, idx, 0, 0)

\* C16: under every interleaving of the steps of concurrent __getitem__ calls,
\* each call returns the pair it returns when it runs alone.
C16_ConcurrentGetSafe ==
    pc = "workers" =>
        \A w \in Workers :
           frames[w].pc = "returned" => frames[w].ret = Alone(frames[w].index)

C16_Witness ==
    /\ pc = "workers"
    /\ dataset.patch_augment
    /\ image_array = Ramp(2, <<2, 2>>, 0)
    /\ frames[1].pc = "returned" /\ frames[1].index = 0
    /\ frames[2].pc = "normalize_target" /\ frames[2].index = 1
    /\ rotate_state = 1 /\ flip_state = 1
    /\ frames[1].ret = Alone(0)
    /\ frames[1].ret[1].data # frames[2].patch.data

\* C17: whatever __getitem__ calls were made, with or without augmentation,
\* image_data and target_data of the dataset hold the values they were
\* constructed with: the stacks of the patches create_patches cut.
C17_PatchArraysNotMutated ==
    pc \in {"loading", "test_dataset", "predict", "done"} =>
        /\ dataset.image_data = Stack(image_patches)
        /\ dataset.target_data = Stack(target_patches)
        /\ test_dataset # NoDataset =>
              /\ test_dataset.image_data = test_images_array
              /\ test_dataset.target_data = test_targets_array

C17_Witness ==
    /\ pc = "loading"
    /\ dataset.patch_augment
    /\ image_batch # None
    /\ index = 1
    /\ rotate_state = 2
    /\ image_batch.data # IndexFirst(dataset.image_data, 1).data
    /\ dataset.image_data = Stack(image_patches)

\* C18: image_array and target_array hold, while create_patches runs, after it
\* returns and after the caller has written into a returned patch, the values
\* and the dtype they were passed with; the returned stacks share no memory
\* with them.
C18_InputsUntouched ==
    pc \in {"create_patches", "statistics", "written", "IndexError", "ValueError"} =>
        /\ image_array = Ramp(image_array.shape[1], Tail(image_array.shape), 0)
        /\ target_array = Ramp(target_array.shape[1], Tail(target_array.shape), 0)
        /\ ~shares_memory

C18_Witness ==
    /\ pc = "written"
    /\ image_array = Ramp(1, <<2, 3>>, 0)
    /\ crop_coords = <<0, 0>>
    /\ train_images_patches.data[1] = <<-1, 1>>
    /\ train_images_patches.data[2] = <<1, 1>>
    /\ train_images_patches.dtype = "float32"

StatisticsComputed ==
    /\ train_mean = Mean(image_array) /\ train_std = Std(image_array)
    /\ target_mean = Mean(target_array) /\ target_std = Std(target_array)

NoStatistics ==
    /\ train_mean = NoValue /\ train_std = NoValue
    /\ target_mean = NoValue /\ target_std = NoValue

\* C19 as stated: the statistics are set once, to those of the full train
\* stacks, and they are set before create_patches samples any patch.
C19_StatisticsBeforeSampling ==
    PipelineRuns =>
        /\ NoStatistics \/ StatisticsComputed
        /\ (crop_coords # <<>> \/ image_patches # <<>>) => StatisticsComputed

\* the cells that run after the statistics cell
AfterStatistics == {"dataset", "loading", "test_dataset", "predict", "done"}

\* once the statistics cell has run, no step changes a statistic or a train
\* stack, and the cells after it are entered from it only
StatisticsKept ==
    pc' \in AfterStatistics =>
        \/ pc = "statistics" /\ pc' = "dataset"
        \/ /\ pc \in AfterStatistics
           /\ UNCHANGED <<statVars, image_array, target_array>>

\* C19 amended: the statistics are set once, to those of the full train
\* stacks and never of patches: they are unset until create_patches has
\* returned, and from the statistics cell on, before any sample is drawn from
\* a dataset, they are the full-stack values and stay so.
C19_StatisticsBeforeDraws ==
    /\ [](PipelineRuns =>
            /\ pc \in {"create_patches", "statistics"} =>
                  NoStatistics /\ dataset = NoDataset /\ image_batch = None
            /\ pc = "dataset" =>
                  StatisticsComputed /\ dataset = NoDataset /\ image_batch = None
            /\ pc \in AfterStatistics => train_images_patches # None)
    /\ [][StatisticsKept]_vars

C19_Witness ==
    /\ pc = "loading"
    /\ image_batch # None
    /\ StatisticsComputed
    /\ train_mean # Mean(train_images_patches)
    /\ train_std # Std(train_images_patches)
    /\ train_mean # target_mean

NonFinite(arr) == \A n \in DOMAIN arr.data : ~IsFinite(arr.data[n])

ZeroStdValues == {-1, 0, 1, 2}

ZeroStdMeans == {0, 1}

Pixel(v) == [shape |-> <<1>>, dtype |-> "float32", data |-> <<Int2Rat(v)>>]

\* C20: normalize with std = 0 returns, without an error, an array of the
\* input's shape whose values are all non-finite (inf above the mean, -inf
\* below it, nan at the mean), and a __getitem__ call of a dataset whose
\* statistics have std = 0 runs to its return with both arrays of the pair
\* non-finite throughout.
C20_ZeroStdPropagates ==
    /\ \A v \in ZeroStdValues, m \in ZeroStdMeans :
          LET out == normalize(Pixel(v), Int2Rat(m), <<0, 1>>)
          IN  /\ out.shape = <<1>>
              /\ out.data[1] = IF v > m THEN <<1, 0>>
                               ELSE IF v < m THEN <<-1, 0>> ELSE <<0, 0>>
    /\ (pc = "workers" /\ train_std = <<0, 1>> /\ target_std = <<0, 1>>) =>
          \A w \in Workers :
             /\ frames[w].pc \in {"idle", "patch", "target", "augment",
                                  "normalize_patch", "normalize_target",
                                  "return", "returned"}
             /\ frames[w].pc \in {"normalize_target", "return"} =>
                   /\ NonFinite(frames[w].patch)
                   /\ frames[w].patch.shape = patch_size
             /\ frames[w].pc = "return" => NonFinite(frames[w].target)
             /\ frames[w].pc = "returned" =>
                   /\ NonFinite(frames[w].ret[1]) /\ NonFinite(frames[w].ret[2])
                   /\ frames[w].ret[1].shape = <<1>> \o patch_size
                   /\ frames[w].ret[2].shape = <<1>> \o patch_size
                   /\ frames[w].ret[1].dtype = "float32"
                   /\ frames[w].ret[2].dtype = "float32"

C20_Witness ==
    /\ pc = "workers"
    /\ image_array = Constant(2, <<2, 2>>, 3)
    /\ train_std = <<0, 1>> /\ target_std = <<0, 1>>
    /\ dataset.patch_augment
    /\ frames[1].pc = "returned" /\ frames[1].index = 1
    /\ frames[1].ret[1].data = [n \in 1..4 |-> <<0, 0>>]
    /\ frames[1].ret[2].data = [n \in 1..4 |-> <<0, 0>>]
    /\ frames[2].pc = "normalize_patch"

\* the images have axes before the spatial ones
HasLeadingAxes == Len(image_array.shape) - 1 > Len(patch_size)

\* C21: when the images have leading non-spatial axes, every drawn coordinate
\* d lies in the range 0 .. S[d] - P[d] of its own spatial axis, and every
\* patch, of the input and of the target, keeps the leading axes whole and
\* has the extents of patch_size on the spatial ones.
C21_LeadingAxesPreserved ==
    HasLeadingAxes =>
        LET shape == Tail(image_array.shape)
            S     == Spatial(shape)
            lead  == SubSeq(shape, 1, Len(shape) - Len(patch_size))
        IN  /\ \A d \in DOMAIN crop_coords :
                  0 <= crop_coords[d] /\ crop_coords[d] <= S[d] - patch_size[d]
            /\ \A n \in 1..Len(image_patches) :
                  /\ image_patches[n].shape = lead \o patch_size
                  /\ target_patches[n].shape = lead \o patch_size

\* the pixel values of image j that occur in no patch held or returned
Uncovered(j) ==
    {v \in Values(IndexFirst(image_array, j)) :
        \A n \in 1..Len(image_patches) : v \notin Values(image_patches[n])}

\* C22: the coordinates are drawn independently of the patches drawn before:
\* at every draw from an image every coordinate of the range can be drawn,
\* those drawn before included, so nothing makes the patches of an image tile it.
C22_DrawsIndependent ==
    (pc = "create_patches" /\ ~HasLeadingAxes /\ s < image_array.shape[1]) =>
        \A c \in InsideCoords(sample.shape) :
           ENABLED (DrawCoords /\ crop_coords' = c)

\* create_patches has returned n_patches patches of an image whose size is a
\* multiple of the patch size, and a pixel of the image is in none of them
C22_Witness ==
    /\ pc = "statistics"
    /\ image_array.shape = <<2, 2, 2>> /\ patch_size = <<1, 2>>
    /\ train_images_patches.shape = <<4, 1, 2>>
    /\ image_patches[1] = image_patches[2]
    /\ Uncovered(0) = {<<2, 1>>, <<3, 1>>}
    /\ Uncovered(1) = {}

\* the extents of an array of this shape after rot quarter-turns
TurnedShape(shape, rot) == IF rot % 2 = 1 THEN SwapLast2(shape) ELSE shape

\* the pixel of the input that rot quarter-turns, from the second last axis
\* towards the last one, bring to idx; leading indices stay
TurnSource(idx, shape, rot) ==
    LET r == Len(shape)
        H == shape[r - 1]
        W == shape[r]
        i == idx[r - 1]
        j == idx[r]
    IN  [d \in 1..r |->
            IF d = r - 1
            THEN CASE rot = 0 -> i [] rot = 1 -> j
                   [] rot = 2 -> H - 1 - i [] rot = 3 -> H - 1 - j
            ELSE IF d = r
            THEN CASE rot = 0 -> j [] rot = 1 -> W - 1 - i
                   [] rot = 2 -> W - 1 - j [] rot = 3 -> i
            ELSE idx[d]]

\* out is arr turned by rot quarter-turns and then, if flip = 1, mirrored
\* along its last axis
TurnedThenMirrored(out, arr, rot, flip) ==
    LET shape == TurnedShape(arr.shape, rot)
        r     == Len(shape)
    IN  /\ out.shape = shape
        /\ out.dtype = arr.dtype
        /\ \A idx \in Indices(shape) :
              LET at == [d \in 1..r |->
                            IF d = r /\ flip = 1 THEN shape[r] - 1 - idx[d] ELSE idx[d]]
              IN  At(out, idx) = At(arr, TurnSource(at, arr.shape, rot))

\* C23: augment_batch draws rotate_state in 0..3 and flip_state in 0..1, a
\* generator with a seed not used before can draw each of the eight states,
\* and each returned array is its input turned by rotate_state quarter-turns in
\* the plane of the last two axes and then, only if flip_state = 1, mirrored
\* along the last axis, with the leading axes as they were.
C23_RotateThenFlip ==
    pc = "augment_batch" =>
        /\ \A seed \in Seeds \ DOMAIN stream :
              \A rot \in 0..3, flip \in 0..1 :
                 ENABLED (DrawStates(seed) /\ rotate_state' = rot /\ flip_state' = flip)
        /\ augmented # <<>> =>
              /\ rotate_state \in 0..3 /\ flip_state \in 0..1
              /\ TurnedThenMirrored(augmented[1], args.patch, rotate_state, flip_state)
              /\ TurnedThenMirrored(augmented[2], args.target, rotate_state, flip_state)

C23_Witness ==
    /\ pc = "augment_batch"
    /\ augmented # <<>>
    /\ args.patch = PatchInput(<<2, 3>>)
    /\ args.seed # DefaultSeed
    /\ rotate_state = 1 /\ flip_state = 1
    /\ augmented[1].shape = <<3, 2>>
    /\ augmented[1].data = <<Int2Rat(6), Int2Rat(3), Int2Rat(5),
                             Int2Rat(2), Int2Rat(4), Int2Rat(1)>>

\* out is arr[index] with a leading axis of size 1, every pixel in its place
\* and normalized with mean and std, as float32
NormalizedInPlace(out, arr, mean, std) ==
    LET item == IndexFirst(arr, index)
    IN  /\ out.shape = <<1>> \o item.shape
        /\ out.dtype = "float32"
        /\ \A n \in DOMAIN item.data :
              out.data[n] = RDiv(RSub(item.data[n], mean), std)

\* the latest __getitem__ call was made on a dataset with the flag off
FlagOffCall ==
    /\ PipelineRuns /\ image_batch # None
    /\ ~LatestDataset.patch_augment

\* C24: on a dataset with apply_augmentations off, __getitem__ returns the
\* stored patch and the stored target of the index, each pixel in its place,
\* normalized with the source and the target statistics, with a channel axis
\* prepended (as float32); a further call with the same index on the same
\* dataset returns the same pair.
C24_FlagOffNoTransform ==
    /\ [](FlagOffCall =>
            /\ NormalizedInPlace(image_batch, LatestDataset.image_data,
                                 train_mean, train_std)
            /\ NormalizedInPlace(target_batch, LatestDataset.target_data,
                                 target_mean, target_std))
    /\ [][(FlagOffCall /\ pc = "loading" /\ pc' = "loading" /\ index' = index) =>
             (image_batch' = image_batch /\ target_batch' = target_batch)]_vars

C24_Witness ==
    /\ pc = "loading"
    /\ image_batch # None
    /\ ~dataset.patch_augment
    /\ index = 1
    /\ image_array.shape = <<1, 2, 3>> /\ patch_size = <<2, 2>>
    /\ crop_coords = <<0, 1>>
    /\ IndexFirst(dataset.image_data, 1).data[1] = <<1, 1>>
    /\ image_batch.shape = <<1, 2, 2>>
    /\ image_batch.data[1] = RDiv(RSub(<<1, 1>>, train_mean), train_std)
    /\ IsFinite(image_batch.data[1])
    /\ image_batch.data[1] # image_batch.data[2]

\* the pair held is item index of ds normalized with the four statistics
DrawnWithTrainStatistics(ds) ==
    /\ NormalizedInPlace(image_batch, ds.image_data, train_mean, train_std)
    /\ NormalizedInPlace(target_batch, ds.target_data, target_mean, target_std)

\* the datasets constructed so far
Datasets == {dataset, val_dataset, test_dataset} \ {NoDataset}

\* C25: once computed, train_mean, train_std, target_mean and target_std are
\* the statistics of the train stacks and stay so, and the pair a __getitem__
\* call returned, on the train, the validation or the test dataset, is an item
\* of that dataset normalized with them, not with statistics of the dataset's
\* own arrays.
C25_SameConstantsEverywhere ==
    /\ [](pc = "dataset" => StatisticsComputed)
    /\ [][StatisticsKept]_vars
    /\ []((PipelineRuns /\ image_batch # None) =>
            /\ pc \in AfterStatistics
            /\ \E ds \in Datasets :
                  index < DatasetLen(ds) /\ DrawnWithTrainStatistics(ds))

\* a draw from the validation dataset, whose own statistics are not those of
\* the train stacks
C25_Witness ==
    /\ pc = "loading"
    /\ image_batch # None
    /\ index < DatasetLen(val_dataset)
    /\ StatisticsComputed
    /\ DrawnWithTrainStatistics(val_dataset)
    /\ \A i \in 0..(DatasetLen(dataset) - 1) :
          image_batch # GetItemPair(dataset, i, 0, 0)[1]
    /\ Mean(val_images_array) # train_mean
    /\ Mean(val_images_patches) # train_mean
    /\ image_batch #
          AsType(NewAxis(normalize(IndexFirst(val_dataset.image_data, index),
                                   Mean(val_images_array),
                                   Std(val_images_array))), "float32")

\* C26: what augment_batch returns is fixed by patch, target and seed: the
\* states applied are the draw of the generator seeded with the seed passed,
\* the draw of a seed is the same in every call, whatever calls with other
\* seeds were made in between, and a call that repeats the arguments of the
\* one before returns the same pair.
C26_DeterministicInSeed ==
    /\ []((pc = "augment_batch" /\ augmented # <<>>) =>
             /\ args.seed \in DOMAIN stream
             /\ <<rotate_state, flip_state>> = stream[args.seed]
             /\ augmented[1] = _flip_and_rotate(args.patch, stream[args.seed][1],
                                                stream[args.seed][2])
             /\ augmented[2] = _flip_and_rotate(args.target, stream[args.seed][1],
                                                stream[args.seed][2]))
    /\ [][\A seed \in DOMAIN stream :
             seed \in DOMAIN stream' /\ stream'[seed] = stream[seed]]_vars
    /\ [][(pc = "augment_batch" /\ augmented # <<>> /\ args' = args) =>
             augmented' = augmented]_vars

\* calls with two seeds were made, and the two seeds draw different states
C26_Witness ==
    /\ pc = "augment_batch"
    /\ augmented # <<>>
    /\ DOMAIN stream = {0, DefaultSeed}
    /\ args.seed = 0
    /\ args.patch = PatchInput(<<2, 3>>)
    /\ stream[0] = <<1, 0>> /\ stream[DefaultSeed] = <<2, 1>>
    /\ augmented[1].shape = <<3, 2>>

AugmentationStates == RotateStates \X FlipStates

\* the last two extents are equal and no pixel value occurs twice
SquareAndAllDifferent(arr) ==
    /\ arr.shape[Len(arr.shape)] = arr.shape[Len(arr.shape) - 1]
    /\ \A m, n \in DOMAIN arr.data : m # n => arr.data[m] # arr.data[n]

\* no two of the eight states turn arr into the same array
EightDistinct(arr) ==
    Cardinality({_flip_and_rotate(arr, st[1], st[2]) :
                    st \in AugmentationStates}) = Cardinality(AugmentationStates)

\* C27 as stated: on every square patch whose pixel values are all different
\* the eight states give eight pairwise different arrays.
C27_EightDistinctOnSquares ==
    (pc = "augment_batch" /\ SquareAndAllDifferent(args.patch)) =>
        EightDistinct(args.patch)

\* C27 amended: on every square patch of side at least 2 whose pixel values
\* are all different the eight states give eight pairwise different arrays,
\* so what augment_batch returned tells which state it drew.
C27_EightDistinctFromSideTwo ==
    (pc = "augment_batch" /\ SquareAndAllDifferent(args.patch)
        /\ args.patch.shape[Len(args.patch.shape)] >= 2) =>
        /\ EightDistinct(args.patch)
        /\ augmented # <<>> =>
              \A st \in AugmentationStates :
                 augmented[1] = _flip_and_rotate(args.patch, st[1], st[2]) =>
                    st = <<rotate_state, flip_state>>

C27_Witness ==
    /\ pc = "augment_batch"
    /\ augmented # <<>>
    /\ args.patch = PatchInput(<<1, 3, 3>>)
    /\ rotate_state = 3 /\ flip_state = 1
    /\ augmented[1] # args.patch
    /\ Cardinality({_flip_and_rotate(args.patch, st[1], st[2]) :
                       st \in AugmentationStates}) = 8

\* a __getitem__ call was made on a dataset of any lengths
GetCalled == pc = "get" /\ args.fn = "__getitem__"

\* the arrays of the dataset are the ones it was constructed with
AsConstructed ==
    /\ dataset.image_data = Items(dataset.image_data.shape[1])
    /\ dataset.target_data = Scale(Items(dataset.target_data.shape[1]), 2)

\* C28 as stated: on every dataset a call with 0 <= index < len(dataset)
\* returns a pair, a call with any other index raises IndexError, and the
\* dataset is as it was constructed.
C28_IndexRange ==
    GetCalled =>
        /\ (0 <= index /\ index < DatasetLen(dataset)) =>
              args.raised = "none" /\ image_batch # None /\ target_batch # None
        /\ ~(0 <= index /\ index < DatasetLen(dataset)) =>
              args.raised = "IndexError"
        /\ AsConstructed

\* C28 amended: a call returns a pair exactly when the index lies in
\* -len(a) .. len(a) - 1 for both arrays a of the dataset, and raises
\* IndexError otherwise, the dataset staying as it was constructed. So with
\* target_data at least as long as image_data an index in 0 .. len(dataset) - 1
\* returns the pair of that index, an index >= len(dataset) or < -len(dataset)
\* always raises, and with equally long arrays an index in -len(dataset) .. -1
\* returns the pair of index + len(dataset).
C28_IndexRangeOfArrays ==
    GetCalled =>
        LET n  == DatasetLen(dataset)
            nt == dataset.target_data.shape[1]
            ok == -n <= index /\ index < n /\ -nt <= index /\ index < nt
        IN  /\ args.raised = IF ok THEN "none" ELSE "IndexError"
            /\ (nt >= n /\ 0 <= index /\ index < n) =>
                  /\ args.raised = "none"
                  /\ image_batch.shape[1] = 1 /\ target_batch.shape[1] = 1
                  /\ image_batch.dtype = "float32" /\ target_batch.dtype = "float32"
                  /\ ~dataset.patch_augment =>
                        /\ NormalizedInPlace(image_batch, dataset.image_data,
                                             train_mean, train_std)
                        /\ NormalizedInPlace(target_batch, dataset.target_data,
                                             target_mean, target_std)
            /\ (index >= n \/ index < -n) => args.raised = "IndexError"
            /\ (nt = n /\ -n <= index /\ index < 0) =>
                  /\ args.raised = "none"
                  /\ image_batch = GetItemPair(dataset, index + n,
                                               rotate_state, flip_state)[1]
                  /\ target_batch = GetItemPair(dataset, index + n,
                                                rotate_state, flip_state)[2]
            /\ AsConstructed

\* a call past the end raised after an earlier call had returned a pair
C28_Witness ==
    /\ GetCalled
    /\ DatasetLen(dataset) = 2 /\ dataset.target_data.shape[1] = 2
    /\ index = 2
    /\ args.raised = "IndexError"
    /\ image_batch # None
    /\ image_batch.data[1] = RDiv(RSub(<<2, 1>>, train_mean), train_std)

\* how often the file f occurs in the list
Occurrences(files, f) == Cardinality({i \in DOMAIN files : files[i] = f})

\* train and val hold every file of the listing, each exactly once in all
Partitions(listing, train, val) ==
    /\ \A i \in DOMAIN listing :
          Occurrences(train, listing[i]) + Occurrences(val, listing[i]) = 1
    /\ Len(train) + Len(val) = Len(listing)

\* C29: when the split cell has run through, the image files and the target
\* files are the two listings permuted by one and the same permutation, the
\* first int(0.8 * n) of them are the train files and the rest the validation
\* files, every listed file is in exactly one of the two, and position i of
\* an image list and of its target list hold files of the same name.
C29_SplitPartition ==
    pc = "split_done" =>
        LET n   == Len(args.image_files)
            cut == (4 * n) \div 5
        IN  /\ Len(shuffled_indices) = n
            /\ {shuffled_indices[i] : i \in 1..n} = 1..n
            /\ \A i \in 1..n :
                  /\ image_files[i] = args.image_files[shuffled_indices[i]]
                  /\ target_files[i] = args.target_files[shuffled_indices[i]]
            /\ train_image_files = [i \in 1..cut |-> image_files[i]]
            /\ train_target_files = [i \in 1..cut |-> target_files[i]]
            /\ val_image_files = [i \in 1..(n - cut) |-> image_files[cut + i]]
            /\ val_target_files = [i \in 1..(n - cut) |-> target_files[cut + i]]
            /\ Partitions(args.image_files, train_image_files, val_image_files)
            /\ Partitions(args.target_files, train_target_files, val_target_files)
            /\ \A i \in 1..cut :
                  train_image_files[i].name = train_target_files[i].name
            /\ \A i \in 1..(n - cut) :
                  val_image_files[i].name = val_target_files[i].name

C29_Witness ==
    /\ pc = "split_done"
    /\ args.image_files = <<File("low", 2), File("low", 1), File("low", 3)>>
    /\ shuffled_indices = <<3, 1, 2>>
    /\ train_image_files = <<File("low", 3), File("low", 2)>>
    /\ train_target_files = <<File("GT", 3), File("GT", 2)>>
    /\ val_image_files = <<File("low", 1)>>
    /\ val_target_files = <<File("GT", 1)>>

\* an epoch has just been saved
EpochSaved ==
    /\ pc \in {"train_loop", "trained"}
    /\ epoch > 0 /\ i_batch = 0

\* C30: while the loop runs train_losses and val_losses hold one entry per
\* finished epoch, n_epochs of them when it has finished; an epoch's entries
\* are appended behind those of the epochs before, which stay as they are, and
\* they are the loss of the epoch's last train batch and of its last
\* validation batch, not a sum or mean over the batches.
C30_LossesPerEpoch ==
    /\ [](pc \in {"train_loop", "val_loop", "trained"} =>
             /\ Len(train_losses) = epoch /\ Len(val_losses) = epoch
             /\ pc = "trained" => epoch = n_epochs
             /\ EpochSaved =>
                   /\ train_losses[epoch] =
                         batch_losses.train[Len(batch_losses.train)]
                   /\ val_losses[epoch] = batch_losses.val[Len(batch_losses.val)])
    /\ [][/\ \A e \in DOMAIN train_losses :
                e \in DOMAIN train_losses' /\ train_losses'[e] = train_losses[e]
          /\ \A e \in DOMAIN val_losses :
                e \in DOMAIN val_losses' /\ val_losses'[e] = val_losses[e]
          /\ Len(train_losses') <= Len(train_losses) + 1
          /\ Len(val_losses') = Len(train_losses')]_vars

\* the loop has finished; in the last epoch the validation batches had the
\* losses 2 and 1, and 1 is what was saved
C30_Witness ==
    /\ pc = "trained"
    /\ args.train_batches = 2 /\ args.val_batches = 2
    /\ batch_losses.val = <<2, 1>>
    /\ batch_losses.train = <<1, 2>>
    /\ val_losses = <<1, 2, 1, 2, 1>>
    /\ train_losses = <<2, 2, 1, 1, 2>>

====
